---- MODULE Spec2Model ----
(***************************************************************************)
(* A model of the traffic-signal reinforcement-learning environment:       *)
(* the stochastic intersection simulator, the signal controller, the       *)
(* state encoder and the Gymnasium environment that orchestrates them.     *)
(*                                                                         *)
(* Units.  Lengths are in tenths of a metre, speeds in tenths of a metre   *)
(* per second, times in whole seconds, probabilities and uniform draws in  *)
(* thousandths, normalised features in thousandths, rewards in hundredths. *)
(***************************************************************************)
EXTENDS Integers, Sequences, FiniteSets, TLC

----------------------------------------------------------------------------
(* Bounds of the model *)

MaxTicks == 2          \* generate_timestep calls per simulator before a reset
MaxSpawned == 2        \* objects spawned per simulator before a reset
MaxSteps == 2          \* max_steps_per_episode, and step calls per episode beyond one
MaxCapacity == 2       \* capacity of the ReplayBuffer
MaxPushes == 4         \* transitions pushed into the ReplayBuffer
MaxStored == 3         \* store_experience calls on the DQNAgent
MaxTrains == 2         \* train calls on the DQNAgent that reach the optimizer
MaxGreenTicks == 20     \* generate_timestep calls under a signal that stays green
MaxQueued == 4         \* objects pushed into the AStarPriorityQueue

----------------------------------------------------------------------------
(* Constants of the program *)

Directions == <<"N", "S", "E", "W">>
DirSet == {"N", "S", "E", "W"}

GREEN == "green"
RED == "red"
ORANGE == "orange"
ALL_RED == "all_red"

\* pandas' missing value: what a DataFrame holds where a row's dict had no
\* such key.  Every arithmetic operator below propagates it.
NaN == -1000000000
IsNaN(x) == x = NaN

Max(a, b) == IF a >= b THEN a ELSE b
Min(a, b) == IF a <= b THEN a ELSE b

DEFAULT_SPAWN_RATE == 500
DEFAULT_PED_SPAWN_RATE == 200
EMERGENCY_SPAWN_RATE == 10

----------------------------------------------------------------------------
(* Insertion-ordered dicts: sequences of records with a unique "key" field *)

DictKeys(d) == {d[i].key : i \in 1..Len(d)}

DictPut(d, k, val) ==
    IF k \in DictKeys(d)
    THEN [i \in 1..Len(d) |-> IF d[i].key = k THEN val ELSE d[i]]
    ELSE Append(d, val)

----------------------------------------------------------------------------
(* SimpleTrafficSimulator *)

DefaultSpawnRates == [a \in DirSet |-> DEFAULT_SPAWN_RATE]
DefaultPedestrianSpawnRates == [a \in DirSet |-> DEFAULT_PED_SPAWN_RATE]

\* dict.update(overrides): the keys of `overrides` replace the defaults.
DictUpdate(base, overrides) ==
    [a \in DOMAIN base |-> IF a \in DOMAIN overrides THEN overrides[a] ELSE base[a]]

\* SimpleTrafficSimulator.__init__ (with BaseSimulator.__init__): the rates
\* of the configuration are stored as given.
NewSimulator(seed, config) ==
    [ seed |-> seed,
      current_timestep |-> 0,
      spawned_count |-> 0,
      cleared_count |-> 0,
      spawn_rates |-> DictUpdate(DefaultSpawnRates, config.spawn_rates),
      pedestrian_spawn_rates |->
          DictUpdate(DefaultPedestrianSpawnRates, config.pedestrian_spawn_rates),
      vehicles |-> <<>>,
      pedestrians |-> <<>>,
      emergency_vehicles |-> <<>> ]

\* A reset that forgets pedestrians.clear().
SimulatorResetKeepsPedestrians(s) ==
    [s EXCEPT !.vehicles = <<>>,
              !.emergency_vehicles = <<>>,
              !.current_timestep = 0,
              !.spawned_count = 0,
              !.cleared_count = 0]

\* SimpleTrafficSimulator.reset
SimulatorReset(s) ==
    [s EXCEPT !.vehicles = <<>>,
              !.pedestrians = <<>>,
              !.emergency_vehicles = <<>>,
              !.current_timestep = 0,
              !.spawned_count = 0,
              !.cleared_count = 0]

\* h_val = distance_m / max(speed_m_s, 0.01), in tenths of a second.
HVal(distance_m, speed_m_s) ==
    IF speed_m_s >= 1 THEN (distance_m * 10) \div speed_m_s ELSE distance_m * 100

\* SimpleTrafficSimulator._vehicle_to_dict, as the row it becomes in the
\* DataFrame (committed and in_crosswalk as 0/1).
VehicleToDict(v, current_timestep) ==
    [ object_id |-> v.key,
      type |-> "vehicle",
      approach |-> v.approach,
      distance_m |-> Max(0, v.distance_m),
      speed_m_s |-> Max(0, v.speed_m_s),
      movement |-> v.movement,
      f_val |-> v.distance_m,
      h_val |-> HVal(v.distance_m, v.speed_m_s),
      priority_score |-> v.distance_m + HVal(v.distance_m, v.speed_m_s),
      committed |-> IF v.committed THEN 1 ELSE 0,
      in_crosswalk |-> 0,
      wait_time |-> current_timestep - v.created_at ]

\* The row of a spawned pedestrian: the dict has no movement, f_val, h_val,
\* priority_score, committed or wait_time key.
PedestrianRow(p) ==
    [ object_id |-> p.key,
      type |-> "pedestrian",
      approach |-> p.approach,
      distance_m |-> p.distance_m,
      speed_m_s |-> p.speed_m_s,
      movement |-> "NaN",
      f_val |-> NaN,
      h_val |-> NaN,
      priority_score |-> NaN,
      committed |-> NaN,
      in_crosswalk |-> IF p.in_crosswalk THEN 1 ELSE 0,
      wait_time |-> NaN ]

\* The row of a spawned emergency vehicle.
EmergencyRow(e) ==
    [ object_id |-> e.key,
      type |-> "emergency",
      approach |-> e.approach,
      distance_m |-> e.distance_m,
      speed_m_s |-> e.speed_m_s,
      movement |-> "NaN",
      f_val |-> NaN,
      h_val |-> NaN,
      priority_score |-> NaN,
      committed |-> NaN,
      in_crosswalk |-> NaN,
      wait_time |-> NaN ]

VehicleColumns ==
    {"object_id", "type", "approach", "distance_m", "speed_m_s", "lane", "movement",
     "f_val", "h_val", "priority_score", "committed", "in_crosswalk", "wait_time"}
PedestrianColumns ==
    {"ped_id", "approach", "distance_m", "speed_m_s", "in_crosswalk", "created_at",
     "type", "object_id"}
EmergencyColumns ==
    {"emerg_id", "approach", "distance_m", "speed_m_s", "created_at", "type",
     "object_id"}
EmptyFrameColumns ==
    {"timestamp", "object_id", "type", "approach", "distance_m", "speed_m_s",
     "movement", "f_val", "h_val", "priority_score", "committed", "in_crosswalk",
     "wait_time"}

RowColumns(type) ==
    IF type = "vehicle" THEN VehicleColumns
    ELSE IF type = "pedestrian" THEN PedestrianColumns
    ELSE EmergencyColumns

\* pd.DataFrame(df_data) and the timestamp column of generate_timestep: the
\* columns are the union of the rows' keys.
DataFrame(df_data, timestamp) ==
    [ rows |-> df_data,
      columns |-> IF df_data = <<>> THEN EmptyFrameColumns
                  ELSE UNION {RowColumns(df_data[i].type) : i \in 1..Len(df_data)}
                       \cup {"timestamp"},
      timestamp |-> timestamp ]

\* pd.DataFrame(): no rows, no columns.
EmptyDataFrame == [rows |-> <<>>, columns |-> {}, timestamp |-> 0]

\* 80% straight, 10% left, 10% right
MovementOf(rand) ==
    IF rand < 800 THEN "straight" ELSE IF rand < 900 THEN "left" ELSE "right"

\* SimpleTrafficSimulator._spawn_vehicles from the i-th approach on.  draws[a]
\* holds the values the random stream yields for approach a: u (the spawn
\* trial), m (the movement trial), d (the distance), s (the speed).
RECURSIVE SpawnVehiclesFrom(_, _, _, _)
SpawnVehiclesFrom(s, i, draws, spawned) ==
    IF i > Len(Directions) THEN [sim |-> s, spawned |-> spawned]
    ELSE LET approach == Directions[i]
             vehicle_id == <<"V", s.current_timestep, approach, Len(s.vehicles)>>
             vehicle == [ key |-> vehicle_id,
                          approach |-> approach,
                          distance_m |-> draws[approach].d,
                          speed_m_s |-> draws[approach].s,
                          movement |-> MovementOf(draws[approach].m),
                          created_at |-> s.current_timestep,
                          committed |-> FALSE ]
         IN IF draws[approach].u < s.spawn_rates[approach]
            THEN SpawnVehiclesFrom(
                     [s EXCEPT !.vehicles = DictPut(@, vehicle_id, vehicle),
                               !.spawned_count = @ + 1],
                     i + 1, draws,
                     Append(spawned, VehicleToDict(vehicle, s.current_timestep)))
            ELSE SpawnVehiclesFrom(s, i + 1, draws, spawned)

SpawnVehicles(s, draws) == SpawnVehiclesFrom(s, 1, draws, <<>>)

\* SimpleTrafficSimulator._spawn_pedestrians from the i-th approach on.
RECURSIVE SpawnPedestriansFrom(_, _, _, _)
SpawnPedestriansFrom(s, i, draws, spawned) ==
    IF i > Len(Directions) THEN [sim |-> s, spawned |-> spawned]
    ELSE LET approach == Directions[i]
             ped_id == <<"P", s.current_timestep, approach, 0>>
             pedestrian == [ key |-> ped_id,
                             approach |-> approach,
                             distance_m |-> draws[approach].d,
                             speed_m_s |-> 12,
                             in_crosswalk |-> FALSE,
                             created_at |-> s.current_timestep ]
         IN IF draws[approach].u < s.pedestrian_spawn_rates[approach]
            THEN SpawnPedestriansFrom(
                     [s EXCEPT !.pedestrians = DictPut(@, ped_id, pedestrian),
                               !.spawned_count = @ + 1],
                     i + 1, draws, Append(spawned, PedestrianRow(pedestrian)))
            ELSE SpawnPedestriansFrom(s, i + 1, draws, spawned)

SpawnPedestrians(s, draws) == SpawnPedestriansFrom(s, 1, draws, <<>>)

\* SimpleTrafficSimulator._spawn_emergency_vehicles.  draw holds u (the 1%
\* trial), a (the approach np.random.choice yields) and d (the distance).
SpawnEmergencyVehicles(s, draw) ==
    LET emerg_id == <<"EMG", s.current_timestep, draw.a, 0>>
        emerg == [ key |-> emerg_id,
                   approach |-> draw.a,
                   distance_m |-> draw.d,
                   speed_m_s |-> 180,
                   created_at |-> s.current_timestep ]
    IN IF draw.u < EMERGENCY_SPAWN_RATE
       THEN [ sim |-> [s EXCEPT !.emergency_vehicles = DictPut(@, emerg_id, emerg),
                                !.spawned_count = @ + 1],
              spawned |-> <<EmergencyRow(emerg)>> ]
       ELSE [sim |-> s, spawned |-> <<>>]

\* signal_state.get(approach, 'red')
SignalOf(signal_state, approach) ==
    IF approach \in DOMAIN signal_state THEN signal_state[approach] ELSE RED

\* A movement step that recomputes committed on every tick and takes a
\* stopped vehicle for not committed.
MoveVehicleRecomputesCommitted(vehicle, signal_state, dt) ==
    LET signal == SignalOf(signal_state, vehicle.approach)
        speed == IF signal = GREEN THEN Min(vehicle.speed_m_s + 20 * dt, 120)
                 ELSE IF signal = ORANGE THEN Max(vehicle.speed_m_s - 10 * dt, 50)
                 ELSE Max(vehicle.speed_m_s - 30 * dt, 0)
        distance == vehicle.distance_m - speed * dt
    IN [vehicle EXCEPT !.speed_m_s = speed,
                       !.distance_m = distance,
                       !.committed = distance < 50 /\ speed > 0]

\* A movement step that takes every signal for red.
MoveVehicleAlwaysBrakes(vehicle, signal_state, dt) ==
    LET speed == Max(vehicle.speed_m_s - 30 * dt, 0)
        distance == vehicle.distance_m - speed * dt
    IN [vehicle EXCEPT !.speed_m_s = speed,
                       !.distance_m = distance,
                       !.committed = IF distance < 50 THEN TRUE ELSE @]

\* The body of the loop of _update_positions for one vehicle, up to the
\* committed-zone check.
MoveVehicle(vehicle, signal_state, dt) ==
    LET signal == SignalOf(signal_state, vehicle.approach)
        speed == IF signal = GREEN THEN Min(vehicle.speed_m_s + 20 * dt, 120)
                 ELSE IF signal = ORANGE THEN Max(vehicle.speed_m_s - 10 * dt, 50)
                 ELSE Max(vehicle.speed_m_s - 30 * dt, 0)
        distance == vehicle.distance_m - speed * dt
    IN [vehicle EXCEPT !.speed_m_s = speed,
                       !.distance_m = distance,
                       !.committed = IF distance < 50 THEN TRUE ELSE @]

\* The removal test of _update_positions.
Cleared(vehicle) == vehicle.distance_m <= 0

\* An _update_positions that removes cleared vehicles without counting them.
UpdatePositionsWithoutCount(s, signal_state, dt) ==
    LET moved == [i \in 1..Len(s.vehicles) |-> MoveVehicle(s.vehicles[i], signal_state, dt)]
    IN [s EXCEPT !.vehicles = SelectSeq(moved, LAMBDA v : ~Cleared(v))]

\* SimpleTrafficSimulator._update_positions
UpdatePositions(s, signal_state, dt) ==
    LET moved == [i \in 1..Len(s.vehicles) |-> MoveVehicle(s.vehicles[i], signal_state, dt)]
        kept == SelectSeq(moved, LAMBDA v : ~Cleared(v))
    IN [s EXCEPT !.vehicles = kept,
                 !.cleared_count = @ + (Len(moved) - Len(kept))]

\* SimpleTrafficSimulator.generate_timestep: the simulator after the tick
\* and the DataFrame returned.
GenerateTimestep(s, signal_state, dt, draws) ==
    LET v == SpawnVehicles(s, draws.veh)
        p == SpawnPedestrians(v.sim, draws.ped)
        e == SpawnEmergencyVehicles(p.sim, draws.emg)
        after == UpdatePositions(e.sim, signal_state, dt)
        df_data == v.spawned \o p.spawned \o e.spawned \o
                   [i \in 1..Len(after.vehicles) |->
                       VehicleToDict(after.vehicles[i], after.current_timestep)]
    IN [ sim |-> [after EXCEPT !.current_timestep = @ + 1],
         df |-> DataFrame(df_data, after.current_timestep) ]

\* SimpleTrafficSimulator.get_stats
GetStats(s) ==
    [ spawned_count |-> s.spawned_count,
      cleared_count |-> s.cleared_count,
      current_vehicles |-> Len(s.vehicles),
      current_pedestrians |-> Len(s.pedestrians),
      current_emergencies |-> Len(s.emergency_vehicles),
      total_current_objects |->
          Len(s.vehicles) + Len(s.pedestrians) + Len(s.emergency_vehicles) ]

\* SimulatorFactory.create(backend, seed=..., config=...)
SimulatorFactoryCreate(backend, seed, config) ==
    IF backend \notin {"simple"}
    THEN [raised |-> "ValueError", sim |-> <<>>]
    ELSE [raised |-> "none", sim |-> NewSimulator(seed, config)]

----------------------------------------------------------------------------
(* StateEncoder *)

TOP_K_OBJECTS == 5
FEATURES_PER_OBJECT == 6
SIGNAL_FEATURES == 4
WAIT_TIME_FEATURES == 4
EXTRA_FEATURES == 2
TOTAL_STATE_SIZE ==
    TOP_K_OBJECTS * FEATURES_PER_OBJECT + SIGNAL_FEATURES + WAIT_TIME_FEATURES
    + EXTRA_FEATURES

\* StateEncoder.normalization, in the units of the model
MaxDistance == 2000
MaxSpeed == 200
MaxWait == 1200
MaxPriority == 100000

Zeros(n) == [i \in 1..n |-> 0]

\* np.clip(x, 0.0, 1.0), in thousandths; a NaN stays a NaN.
Clip(x) == IF IsNaN(x) THEN NaN ELSE Max(0, Min(1000, x))

\* StateEncoder._normalize
Normalize(value, min_val, max_val) ==
    IF max_val = min_val THEN 500
    ELSE IF IsNaN(value) THEN NaN
    ELSE Clip(((value - min_val) * 1000) \div (max_val - min_val))

\* The order of df.nsmallest(n, 'priority_score'): ascending, equal scores
\* in row order, rows without a score last.
RowBefore(rows, i, j) ==
    LET pi == rows[i].priority_score
        pj == rows[j].priority_score
    IN IF IsNaN(pi) THEN IsNaN(pj) /\ i < j
       ELSE IsNaN(pj) \/ pi < pj \/ (pi = pj /\ i < j)

RowRank(rows, i) == Cardinality({j \in 1..Len(rows) : RowBefore(rows, j, i)}) + 1

\* df.nsmallest(n, 'priority_score')
NSmallest(rows, n) ==
    [k \in 1..Min(n, Len(rows)) |->
        rows[CHOOSE i \in 1..Len(rows) : RowRank(rows, i) = k]]

\* The six features _encode_top_objects emits for one row of the top k.
ObjectFeatures(df, obj) ==
    << IF obj.type = "pedestrian" THEN 1000 ELSE 0,
       Normalize(obj.distance_m, 0, MaxDistance),
       Normalize(obj.speed_m_s, 0, MaxSpeed),
       Normalize(IF "h_val" \in df.columns THEN obj.h_val ELSE 0, 0, 500),
       Normalize(obj.priority_score, 0, MaxPriority),
       LET movement == IF "movement" \in df.columns THEN obj.movement ELSE "straight"
       IN IF movement = "straight" THEN 0 ELSE IF movement = "left" THEN 500 ELSE 1000 >>

RECURSIVE FlattenFeatures(_, _, _)
FlattenFeatures(df, top_k, i) ==
    IF i > Len(top_k) THEN <<>>
    ELSE ObjectFeatures(df, top_k[i]) \o FlattenFeatures(df, top_k, i + 1)

\* The columns _encode_top_objects indexes with obj[...] or sorts by.
IndexedColumns == {"priority_score", "type", "distance_m", "speed_m_s"}

\* StateEncoder._encode_top_objects
EncodeTopObjects(df) ==
    IF Len(df.rows) = 0
    THEN [raised |-> "none", features |-> Zeros(TOP_K_OBJECTS * FEATURES_PER_OBJECT)]
    ELSE IF ~(IndexedColumns \subseteq df.columns)
    THEN [raised |-> "KeyError", features |-> <<>>]
    ELSE LET features == FlattenFeatures(df, NSmallest(df.rows, TOP_K_OBJECTS), 1)
         IN [ raised |-> "none",
              features |-> features
                  \o Zeros(Max(0, TOP_K_OBJECTS * FEATURES_PER_OBJECT - Len(features))) ]

\* StateEncoder._encode_signal_state
EncodeSignalState(signal_state) ==
    [i \in 1..Len(Directions) |->
        IF SignalOf(signal_state, Directions[i]) = GREEN THEN 1000 ELSE 0]

\* approach_waits.get(direction, 0.0)
WaitOf(approach_waits, direction) ==
    IF direction \in DOMAIN approach_waits THEN approach_waits[direction] ELSE 0

\* StateEncoder._encode_wait_times
EncodeWaitTimes(approach_waits) ==
    [i \in 1..Len(Directions) |->
        Normalize(WaitOf(approach_waits, Directions[i]), 0, MaxWait)]

\* StateEncoder._encode_extra_features
EncodeExtraFeatures(df, time_in_phase) ==
    << Min(1000, (Len(df.rows) * 1000) \div 50), Normalize(time_in_phase, 0, 60) >>

\* StateEncoder.encode: the vector, or the exception raised.
Encode(sensor_df, signal_state, approach_waits, time_in_phase) ==
    LET top == EncodeTopObjects(sensor_df)
        state == top.features \o EncodeSignalState(signal_state)
                 \o EncodeWaitTimes(approach_waits)
                 \o EncodeExtraFeatures(sensor_df, time_in_phase)
        padded == state \o Zeros(Max(0, TOTAL_STATE_SIZE - Len(state)))
    IN IF top.raised # "none" THEN [raised |-> top.raised, state |-> <<>>]
       ELSE [raised |-> "none", state |-> SubSeq(padded, 1, TOTAL_STATE_SIZE)]

----------------------------------------------------------------------------
(* SignalController *)

\* SignalController.__init__
NewController ==
    [ signal_state |-> [d \in DirSet |-> RED],
      time_in_phase |-> 0,
      phase_duration |-> 0,
      phase_history |-> <<>> ]

\* SignalController.get_signal_state: a copy of the dict.
GetSignalState(c) == c.signal_state

\* SignalController.set_signal: the controller after the call, or the
\* exception raised.
SetSignal(c, direction, state, duration) ==
    IF direction \notin DirSet THEN [raised |-> "ValueError", controller |-> c]
    ELSE IF state \notin {GREEN, RED, ORANGE} THEN [raised |-> "ValueError", controller |-> c]
    ELSE [ raised |-> "none",
           controller |-> [c EXCEPT !.signal_state[direction] = state,
                                    !.phase_duration = duration,
                                    !.time_in_phase = 0] ]

\* An update that lets time_in_phase run past the duration.
UpdateWithoutClamp(c, dt) ==
    [c EXCEPT !.time_in_phase = c.time_in_phase + dt]

\* SignalController.update
Update(c, dt) ==
    [c EXCEPT !.time_in_phase = Min(c.time_in_phase + dt, c.phase_duration)]

\* SignalController.is_phase_complete
IsPhaseComplete(c) == c.time_in_phase >= c.phase_duration

\* A reset that turns every direction green.
ControllerResetToGreen(c) ==
    [c EXCEPT !.signal_state = [d \in DirSet |-> GREEN],
              !.time_in_phase = 0,
              !.phase_duration = 0,
              !.phase_history = <<>>]

\* SignalController.reset
ControllerReset(c) ==
    [c EXCEPT !.signal_state = [d \in DirSet |-> RED],
              !.time_in_phase = 0,
              !.phase_duration = 0,
              !.phase_history = <<>>]

----------------------------------------------------------------------------
(* TrafficEnv *)

\* gym.spaces.Discrete(11)
TOTAL_ACTIONS == 11

\* An action handed to step is a Python number: an int, or a float given in
\* tenths.
IntAction(n) == [type |-> "int", value |-> n]
FloatAction(tenths) == [type |-> "float", value |-> tenths]

\* int(x) of a float in tenths: truncation toward zero.
IntOfFloat(tenths) == IF tenths >= 0 THEN tenths \div 10 ELSE -((-tenths) \div 10)

\* if not isinstance(action, (int, np.integer)): action = int(action)
CoerceAction(action) ==
    IF action.type = "int" THEN action.value ELSE IntOfFloat(action.value)

\* self.action_space.contains(action), for an int
ActionSpaceContains(n) == 0 <= n /\ n < TOTAL_ACTIONS

\* Rewards are in hundredths, per-approach waits in tenths of a second.
RECURSIVE SumSeq(_)
SumSeq(q) == IF q = <<>> THEN 0 ELSE Head(q) + SumSeq(Tail(q))

\* The wait_time values of the rows that have one (Series.mean skips NaN).
WaitValues(rows) ==
    LET HasWait(r) == ~IsNaN(r.wait_time)
        with == SelectSeq(rows, HasWait)
    IN [i \in 1..Len(with) |-> with[i].wait_time]

\* TrafficEnv.__init__
NewEnv(max_steps) ==
    [ max_steps |-> max_steps,
      step_count |-> 0,
      total_reward |-> 0,
      last_sensor_df |-> EmptyDataFrame,
      episode_step_rewards |-> <<>> ]

\* TrafficEnv._compute_reward
ComputeReward(df) ==
    LET waits == WaitValues(df.rows)
        low_wait == /\ "wait_time" \in df.columns
                    /\ waits # <<>>
                    /\ SumSeq(waits) < 5 * Len(waits)
    IN IF Len(df.rows) > 0
       THEN -10 - Len(df.rows) + (IF low_wait THEN 5 ELSE 0)
       ELSE -10

\* TrafficEnv._get_queue_sizes
GetQueueSizes(df) ==
    [d \in DirSet |->
        LET Queued(r) == r.approach = d /\ r.type = "vehicle"
        IN Len(SelectSeq(df.rows, Queued))]

\* TrafficEnv._get_wait_times: the dict, or the exception of
\* approach_df['wait_time'] on a frame without that column.
GetWaitTimes(df) ==
    LET Of(d) == LET At(r) == r.approach = d IN SelectSeq(df.rows, At)
        raises == \E d \in DirSet : Len(Of(d)) > 0 /\ "wait_time" \notin df.columns
        MeanWait(d) == LET waits == WaitValues(Of(d))
                       IN IF Len(Of(d)) = 0 THEN 0
                          ELSE IF waits = <<>> THEN NaN
                          ELSE (SumSeq(waits) * 10) \div Len(waits)
    IN IF Len(df.rows) = 0 THEN [raised |-> "none", wait_times |-> [d \in DirSet |-> 0]]
       ELSE IF raises THEN [raised |-> "KeyError", wait_times |-> [d \in DirSet |-> 0]]
       ELSE [raised |-> "none", wait_times |-> [d \in DirSet |-> MeanWait(d)]]

\* TrafficEnv._get_state: the observation, or the exception raised.
GetState(e, c) ==
    LET waits == GetWaitTimes(e.last_sensor_df)
    IN IF waits.raised # "none" THEN [raised |-> waits.raised, state |-> <<>>]
       ELSE Encode(e.last_sensor_df, GetSignalState(c), waits.wait_times, c.time_in_phase)

\* What step returns when it raises instead.
NoReturn ==
    [ obs |-> <<>>, reward |-> 0, done |-> FALSE, truncated |-> FALSE,
      info |-> [ step |-> 0, total_reward |-> 0, avg_reward |-> 0,
                 queue_sizes |-> [d \in DirSet |-> 0],
                 wait_times |-> [d \in DirSet |-> 0] ] ]

\* Lines 78 to 89 of step: the counter, the snapshot of the tick and the
\* reward are stored.
Stepped(e, df, reward) ==
    [e EXCEPT !.step_count = @ + 1,
              !.last_sensor_df = df,
              !.total_reward = @ + reward,
              !.episode_step_rewards = Append(@, reward)]

\* Lines 92 to 104 of step, on the environment as stored: done, info and the
\* observation, whose computation may raise.
StepReturn(stepped, c, s, reward, waits, obs) ==
    IF waits.raised # "none"
    THEN [raised |-> waits.raised, env |-> stepped, controller |-> c, sim |-> s,
          ret |-> NoReturn]
    ELSE IF obs.raised # "none"
    THEN [raised |-> obs.raised, env |-> stepped, controller |-> c, sim |-> s,
          ret |-> NoReturn]
    ELSE [ raised |-> "none", env |-> stepped, controller |-> c, sim |-> s,
           ret |-> [ obs |-> obs.state,
                     reward |-> reward,
                     done |-> stepped.step_count >= stepped.max_steps,
                     truncated |-> FALSE,
                     info |-> [ step |-> stepped.step_count,
                                total_reward |-> stepped.total_reward,
                                avg_reward |-> SumSeq(stepped.episode_step_rewards)
                                               \div Len(stepped.episode_step_rewards),
                                queue_sizes |-> GetQueueSizes(stepped.last_sensor_df),
                                wait_times |-> waits.wait_times ] ] ]

\* step from line 78 on, given what generate_timestep returned.
StepAccepted(e, c, tick, reward) ==
    StepReturn(Stepped(e, tick.df, reward), c, tick.sim, reward, GetWaitTimes(tick.df),
               GetState(Stepped(e, tick.df, reward), c))

\* step from line 78 on: the simulator ticks under the controller's signal
\* state, with dt = 1.0.
StepTick(e, c, tick) == StepAccepted(e, c, tick, ComputeReward(tick.df))

\* TrafficEnv.step on the environment e, its controller c and its simulator
\* s: the three after the call, and the tuple returned or the exception
\* raised.
Step(e, c, s, action, draws) ==
    IF ~ActionSpaceContains(CoerceAction(action))
    THEN [raised |-> "ValueError", env |-> e, controller |-> c, sim |-> s,
          ret |-> NoReturn]
    ELSE StepTick(e, c, GenerateTimestep(s, GetSignalState(c), 1, draws))

\* A reset that leaves the cumulative reward of the last episode in place.
EnvResetKeepsTotalReward(e, c, s, seed) ==
    LET seeded == IF seed # <<>> THEN [s EXCEPT !.seed = seed[1]] ELSE s
        cleared == [e EXCEPT !.step_count = 0,
                             !.episode_step_rewards = <<>>,
                             !.last_sensor_df = EmptyDataFrame]
        controller == ControllerReset(c)
        obs == GetState(cleared, controller)
    IN [ raised |-> obs.raised, env |-> cleared, controller |-> controller,
         sim |-> SimulatorReset(seeded),
         ret |-> [NoReturn EXCEPT !.obs = obs.state] ]

\* TrafficEnv.reset(seed): seed is <<>> for None, <<n>> for the seed n.
EnvReset(e, c, s, seed) ==
    LET seeded == IF seed # <<>> THEN [s EXCEPT !.seed = seed[1]] ELSE s
        cleared == [e EXCEPT !.step_count = 0,
                             !.total_reward = 0,
                             !.episode_step_rewards = <<>>,
                             !.last_sensor_df = EmptyDataFrame]
        controller == ControllerReset(c)
        obs == GetState(cleared, controller)
    IN [ raised |-> obs.raised, env |-> cleared, controller |-> controller,
         sim |-> SimulatorReset(seeded),
         ret |-> [NoReturn EXCEPT !.obs = obs.state] ]

----------------------------------------------------------------------------
(* ReplayBuffer *)

\* ReplayBuffer.__init__: buffer is a deque(maxlen=capacity).
NewReplayBuffer(capacity) == [capacity |-> capacity, buffer |-> <<>>, pos |-> 0]

\* deque.append on a deque of the given maxlen: a full deque drops its
\* leftmost item.
DequeAppend(q, maxlen, x) ==
    IF maxlen = 0 THEN q
    ELSE IF Len(q) >= maxlen THEN Append(Tail(q), x)
    ELSE Append(q, x)

\* A push that discards the new transition when the buffer is full.
ReplayPushKeepsOldest(b, transition) ==
    IF Len(b.buffer) >= b.capacity THEN b
    ELSE [b EXCEPT !.buffer = Append(@, transition)]

\* ReplayBuffer.push
ReplayPush(b, transition) ==
    [b EXCEPT !.buffer = DequeAppend(@, b.capacity, transition)]

\* The index vectors np.random.choice(n, size, replace=False) can return,
\* as positions 1..n.
ChoiceWithoutReplacement(n, size) ==
    {q \in [1..size -> 1..n] : \A i, j \in 1..size : i # j => q[i] # q[j]}

\* ReplayBuffer.sample with the indices drawn: the buffer after the call and
\* the batch returned, or the exception raised (a negative size in
\* np.random.choice, no row to unpack from zip).
ReplaySample(b, batch_size, indices) ==
    IF Min(batch_size, Len(b.buffer)) <= 0
    THEN [raised |-> "ValueError", rb |-> b, batch |-> <<>>]
    ELSE [ raised |-> "none", rb |-> b,
           batch |-> [i \in 1..Len(indices) |-> b.buffer[indices[i]]] ]

\* ReplayBuffer.__len__
ReplayLen(b) == Len(b.buffer)

----------------------------------------------------------------------------
(* DQNAgent *)

\* The attributes DQNAgent.__init__ sets: epsilon values in millionths, the
\* decay in thousandths.
REPLAY_CAPACITY == 10000
EPSILON_START == 1000000
EPSILON_DECAY == 995
EPSILON_MIN == 10000
TARGET_UPDATE_FREQ == 100

\* The parameters of a network, and the state of the optimizer, are known by
\* the batches the optimizer has stepped on since the networks were
\* initialised: <<>> is the initial value.
InitialParameters == <<>>

\* DQNAgent.__init__: the target network is loaded from the online one.
NewAgent ==
    [ model |-> InitialParameters,
      target_model |-> InitialParameters,
      optimizer |-> InitialParameters,
      replay_buffer |-> NewReplayBuffer(REPLAY_CAPACITY),
      epsilon |-> EPSILON_START,
      epsilon_decay |-> EPSILON_DECAY,
      epsilon_min |-> EPSILON_MIN,
      update_counter |-> 0,
      target_update_freq |-> TARGET_UPDATE_FREQ ]

\* DQNAgent.store_experience
StoreExperience(a, transition) ==
    [a EXCEPT !.replay_buffer = ReplayPush(@, transition)]

\* An epsilon decayed without the floor.
DecayedEpsilonWithoutFloor(a) == (a.epsilon * a.epsilon_decay) \div 1000

\* max(self.epsilon_min, self.epsilon * self.epsilon_decay)
DecayedEpsilon(a) == Max(a.epsilon_min, (a.epsilon * a.epsilon_decay) \div 1000)

\* What train returns without training.
NotTrained == [kind |-> "None", value |-> 0]

\* A train that tests the counter for the target load before counting the
\* update.
TrainOnBatchSyncsBeforeCounting(a, batch, loss) ==
    [ raised |-> "none",
      agent |-> [a EXCEPT
                   !.model = Append(@, batch),
                   !.optimizer = Append(@, batch),
                   !.update_counter = @ + 1,
                   !.target_model =
                       IF a.update_counter % a.target_update_freq = 0
                       THEN Append(a.model, batch) ELSE @,
                   !.epsilon = DecayedEpsilon(a)],
      ret |-> [kind |-> "float", value |-> loss] ]

\* Lines 106 to 140 of train, on the batch sampled: the optimizer steps on
\* the batch, the target network is loaded every target_update_freq updates,
\* epsilon decays, the loss is returned.
TrainOnBatch(a, batch, loss) ==
    [ raised |-> "none",
      agent |-> [a EXCEPT
                   !.model = Append(@, batch),
                   !.optimizer = Append(@, batch),
                   !.update_counter = @ + 1,
                   !.target_model =
                       IF (a.update_counter + 1) % a.target_update_freq = 0
                       THEN Append(a.model, batch) ELSE @,
                   !.epsilon = DecayedEpsilon(a)],
      ret |-> [kind |-> "float", value |-> loss] ]

\* train from line 103 on, given what replay_buffer.sample did.
TrainOnSample(a, sampled, loss) ==
    IF sampled.raised # "none"
    THEN [raised |-> sampled.raised, agent |-> a, ret |-> NotTrained]
    ELSE TrainOnBatch(a, sampled.batch, loss)

\* A train that decays epsilon before it looks at the buffer.
TrainDecaysFirst(a, batch_size, indices, loss) ==
    IF ReplayLen(a.replay_buffer) < batch_size
    THEN [raised |-> "none", agent |-> [a EXCEPT !.epsilon = DecayedEpsilon(a)],
          ret |-> NotTrained]
    ELSE TrainOnSample(a, ReplaySample(a.replay_buffer, batch_size, indices), loss)

\* DQNAgent.train(batch_size), with the indices sample draws and the loss the
\* networks give: the agent after the call and the value returned, or the
\* exception raised.
Train(a, batch_size, indices, loss) ==
    IF ReplayLen(a.replay_buffer) < batch_size
    THEN [raised |-> "none", agent |-> a, ret |-> NotTrained]
    ELSE TrainOnSample(a, ReplaySample(a.replay_buffer, batch_size, indices), loss)

\* q_values.argmax(dim=1).item(): the action the online network prefers in a
\* state, a fixed function of the parameters and the state.
Greedy(parameters, state) == (Len(parameters) + SumSeq(state)) % TOTAL_ACTIONS

\* DQNAgent.select_action(state, training) with the draws np.random.random()
\* (thousandths) and np.random.randint(0, action_size) give: the action and
\* the number of values read from the numpy stream. random() is read only
\* when training, randint only when exploring.
SelectAction(a, state, training, u, randint) ==
    IF training /\ u * 1000 < a.epsilon
    THEN [action |-> randint, draws |-> 2]
    ELSE [action |-> Greedy(a.model, state), draws |-> IF training THEN 1 ELSE 0]

\* A save_model that also writes the update counter.
SaveModelWithCounter(a) ==
    [ model_state |-> a.model, target_state |-> a.target_model,
      epsilon |-> a.epsilon, optimizer_state |-> a.optimizer,
      update_counter |-> a.update_counter ]

\* DQNAgent.save_model: the dict handed to torch.save
SaveModel(a) ==
    [ model_state |-> a.model, target_state |-> a.target_model,
      epsilon |-> a.epsilon, optimizer_state |-> a.optimizer ]

\* DQNAgent.load_model on the dict torch.load returns
LoadModel(a, checkpoint) ==
    [a EXCEPT
       !.model = checkpoint.model_state,
       !.target_model = IF "target_state" \in DOMAIN checkpoint
                        THEN checkpoint.target_state ELSE checkpoint.model_state,
       !.epsilon = IF "epsilon" \in DOMAIN checkpoint
                   THEN checkpoint.epsilon ELSE EPSILON_MIN,
       !.optimizer = IF "optimizer_state" \in DOMAIN checkpoint
                     THEN checkpoint.optimizer_state ELSE @]

\* epsilon after one more completed update
Decayed1(epsilon) == DecayedEpsilon([NewAgent EXCEPT !.epsilon = epsilon])

\* epsilon after k more completed updates, after k times ten and after k times
\* a hundred; an epsilon at the floor stays there.
RECURSIVE DecayedTimes(_, _)
DecayedTimes(epsilon, k) ==
    IF epsilon <= EPSILON_MIN \/ k = 0 THEN epsilon
    ELSE DecayedTimes(Decayed1(epsilon), k - 1)

RECURSIVE DecayedTens(_, _)
DecayedTens(epsilon, k) ==
    IF epsilon <= EPSILON_MIN \/ k = 0 THEN epsilon
    ELSE DecayedTens(DecayedTimes(epsilon, 10), k - 1)

RECURSIVE DecayedHundreds(_, _)
DecayedHundreds(epsilon, k) ==
    IF epsilon <= EPSILON_MIN \/ k = 0 THEN epsilon
    ELSE DecayedHundreds(DecayedTens(epsilon, 10), k - 1)

\* epsilon after n more completed updates
EpsilonAfter(epsilon, n) ==
    DecayedTimes(DecayedTens(DecayedHundreds(epsilon, n \div 100), (n % 100) \div 10),
                 n % 10)

\* A new agent after store_experience(*transition) and n calls of train(1),
\* each on the batch of that one transition: n optimizer steps, the target
\* network loaded at every multiple of target_update_freq, epsilon decayed n
\* times.
TrainedTimes(transition, n) ==
    [ StoreExperience(NewAgent, transition) EXCEPT
        !.model = [i \in 1..n |-> <<transition>>],
        !.optimizer = [i \in 1..n |-> <<transition>>],
        !.target_model = [i \in 1..(n - (n % TARGET_UPDATE_FREQ)) |-> <<transition>>],
        !.update_counter = n,
        !.epsilon = EpsilonAfter(NewAgent.epsilon, n) ]

----------------------------------------------------------------------------
(* AStarPriorityQueue *)

\* The heap is a list of tuples (priority, counter, obj), here a sequence of
\* records; heap[i] of the code is At(heap, i).
At(heap, i) == heap[i + 1]
SetAt(heap, i, item) == [heap EXCEPT ![i + 1] = item]

\* a < b on the tuples: by priority, then by counter.
TupleLess(a, b) ==
    \/ a.priority < b.priority
    \/ a.priority = b.priority /\ a.counter < b.counter

\* heapq._siftdown: newitem moves from pos up to its place above startpos.
RECURSIVE SiftDown(_, _, _, _)
SiftDown(heap, startpos, pos, newitem) ==
    IF pos > startpos /\ TupleLess(newitem, At(heap, (pos - 1) \div 2))
    THEN SiftDown(SetAt(heap, pos, At(heap, (pos - 1) \div 2)), startpos,
                  (pos - 1) \div 2, newitem)
    ELSE SetAt(heap, pos, newitem)

\* The child heapq._siftup moves up from childpos: the smaller one.
SmallerChild(heap, childpos) ==
    IF childpos + 1 < Len(heap) /\ ~TupleLess(At(heap, childpos), At(heap, childpos + 1))
    THEN childpos + 1 ELSE childpos

\* heapq._siftup: the smaller children bubble up to a leaf, where newitem is
\* put and sifted down.
RECURSIVE SiftUp(_, _, _, _)
SiftUp(heap, startpos, pos, newitem) ==
    IF 2 * pos + 1 < Len(heap)
    THEN SiftUp(SetAt(heap, pos, At(heap, SmallerChild(heap, 2 * pos + 1))), startpos,
                SmallerChild(heap, 2 * pos + 1), newitem)
    ELSE SiftDown(SetAt(heap, pos, newitem), startpos, pos, newitem)

\* heapq.heappush
HeapPush(heap, item) == SiftDown(Append(heap, item), 0, Len(heap), item)

\* heapq.heappop on a heap that is not empty: the item returned and the heap
\* left.
HeapPop(heap) ==
    IF Len(heap) = 1 THEN [item |-> heap[1], heap |-> <<>>]
    ELSE [ item |-> heap[1],
           heap |-> SiftUp(SubSeq(heap, 1, Len(heap) - 1), 0, 0, heap[Len(heap)]) ]

\* AStarPriorityQueue.__init__
NewQueue == [queue |-> <<>>, counter |-> 0]

\* A Python value returned where None is possible.
None == [kind |-> "None", obj |-> 0]
Some(obj) == [kind |-> "obj", obj |-> obj]

\* A push whose counters go down instead of up.
QueuePushWithoutCounter(q, priority, obj) ==
    [q EXCEPT !.queue = HeapPush(@, [priority |-> priority, counter |-> 0 - Len(q.queue),
                                     obj |-> obj])]

\* AStarPriorityQueue.push
QueuePush(q, priority, obj) ==
    [q EXCEPT !.queue = HeapPush(@, [priority |-> priority, counter |-> q.counter,
                                     obj |-> obj]),
              !.counter = @ + 1]

\* AStarPriorityQueue.pop: the queue after the call and the value returned.
QueuePop(q) ==
    IF q.queue = <<>> THEN [q |-> q, ret |-> None]
    ELSE [ q |-> [q EXCEPT !.queue = HeapPop(q.queue).heap],
           ret |-> Some(HeapPop(q.queue).item.obj) ]

\* The loop of pop_all: n pops, the objects that are not None collected.
RECURSIVE PopTimes(_, _, _)
PopTimes(q, n, result) ==
    IF n <= 0 THEN [q |-> q, ret |-> result]
    ELSE PopTimes(QueuePop(q).q, n - 1,
                  IF QueuePop(q).ret = None THEN result
                  ELSE Append(result, QueuePop(q).ret.obj))

\* min(k or len(self._queue), len(self._queue)), k being <<>> for None and
\* <<n>> for the integer n: 0 is falsy, as None is.
PopAllCount(q, k) ==
    IF k = <<>> \/ k = <<0>> THEN Len(q.queue) ELSE Min(k[1], Len(q.queue))

\* AStarPriorityQueue.pop_all
QueuePopAll(q, k) == PopTimes(q, PopAllCount(q, k), <<>>)

\* AStarPriorityQueue.clear
QueueClear(q) == [q EXCEPT !.queue = <<>>, !.counter = 0]

\* AStarPriorityQueue.size
QueueSize(q) == Len(q.queue)

----------------------------------------------------------------------------
(* MathUtils.gini_coefficient and HybridRewardCalculator *)

\* A float that is a quotient of integers, kept exact: num / den, den > 0.
Ratio(num, den) == [num |-> num, den |-> den]

\* np.sort
Insert(sorted, x) ==
    LET Below(y) == y <= x
        Above(y) == y > x
    IN SelectSeq(sorted, Below) \o <<x>> \o SelectSeq(sorted, Above)

RECURSIVE NpSort(_)
NpSort(values) ==
    IF values = <<>> THEN <<>> ELSE Insert(NpSort(Tail(values)), Head(values))

\* np.sum(np.arange(1, n + 1) * vals), the ranks counted from `rank`
RECURSIVE RankWeightedSum(_, _)
RankWeightedSum(vals, rank) ==
    IF vals = <<>> THEN 0 ELSE rank * Head(vals) + RankWeightedSum(Tail(vals), rank + 1)

\* np.clip(gini, 0.0, 1.0)
ClipUnit(num, den) ==
    IF num < 0 THEN Ratio(0, 1) ELSE IF num > den THEN Ratio(1, 1) ELSE Ratio(num, den)

\* numerator / denominator - (n + 1) / n, clipped
GiniOf(numerator, denominator, n) ==
    ClipUnit(numerator * n - (n + 1) * denominator, denominator * n)

\* A gini_coefficient that leaves the values in the order given.
GiniWithoutSort(values) ==
    IF Len(values) = 0 THEN Ratio(0, 1)
    ELSE IF SumSeq(values) = 0 THEN Ratio(0, 1)
    ELSE GiniOf(2 * RankWeightedSum(values, 1), Len(values) * SumSeq(values),
                Len(values))

\* MathUtils.gini_coefficient
Gini(values) ==
    IF Len(values) = 0 THEN Ratio(0, 1)
    ELSE IF SumSeq(values) = 0 THEN Ratio(0, 1)
    ELSE GiniOf(2 * RankWeightedSum(NpSort(values), 1), Len(values) * SumSeq(values),
                Len(values))

\* RewardConstants, in tenths
THROUGHPUT_WEIGHT == 10
FAIRNESS_WEIGHT == 5
SAFETY_WEIGHT == 1000
PEDESTRIAN_WEIGHT == 20
STEP_PENALTY == -1

\* list(queue_sizes.values()): the dict is filled in the order of Directions.ALL
QueueValues(queue_sizes) == [i \in 1..Len(Directions) |-> queue_sizes[Directions[i]]]

\* The terms of HybridRewardCalculator.calculate and their sum, in tenths; the
\* fairness term and the total are over the denominator of the Gini
\* coefficient.
RewardTerms(total_queue, gini, risky_events, pedestrian_waiting) ==
    [ throughput |-> -(total_queue * THROUGHPUT_WEIGHT),
      fairness |-> Ratio(-(gini.num * FAIRNESS_WEIGHT), gini.den),
      safety |-> -(risky_events * SAFETY_WEIGHT),
      pedestrian |-> -(pedestrian_waiting * PEDESTRIAN_WEIGHT),
      total |-> Ratio(gini.den * ( -(total_queue * THROUGHPUT_WEIGHT)
                                   - risky_events * SAFETY_WEIGHT
                                   - pedestrian_waiting * PEDESTRIAN_WEIGHT
                                   + STEP_PENALTY )
                      - gini.num * FAIRNESS_WEIGHT,
                      gini.den) ]

\* HybridRewardCalculator.calculate; wait_times is not read.
Calculate(queue_sizes, wait_times, risky_events, pedestrian_waiting) ==
    RewardTerms(SumSeq(QueueValues(queue_sizes)), Gini(QueueValues(queue_sizes)),
                risky_events, pedestrian_waiting)

----------------------------------------------------------------------------
(* The inputs of the model *)

NoOverride == [a \in {} |-> 0]

\* Configurations a simulator is constructed with: the defaults, rates at the
\* ends of [0,1], and rates outside [0,1].
SimConfigs ==
    { [spawn_rates |-> NoOverride, pedestrian_spawn_rates |-> NoOverride],
      [spawn_rates |-> [a \in DirSet |-> IF a = "W" THEN 1000 ELSE 0],
       pedestrian_spawn_rates |-> [a \in {"S", "E", "W"} |-> 0]],
      [spawn_rates |-> [a \in DirSet |-> IF a = "N" THEN 1500 ELSE 0],
       pedestrian_spawn_rates |-> [a \in DirSet |-> IF a = "E" THEN -500 ELSE 0]] }

\* Signal states given to generate_timestep.
SignalInputs ==
    { [a \in DirSet |-> RED],
      [a \in DirSet |-> IF a = "N" THEN GREEN ELSE RED],
      [a \in DirSet |-> IF a \in {"E", "W"} THEN GREEN ELSE ORANGE] }

DtValues == {1, 4}

\* Values of the random stream for the simulator driven directly.  A spawn
\* trial of np.random.random(), in thousandths, succeeds (5) or fails (950)
\* against the default rates; the vehicle trials of S and W and the
\* pedestrian trials of S, E and W fail.  Then the movement trial, the
\* approach np.random.choice picks, the distances of uniform(50, 150),
\* uniform(10, 30) and uniform(80, 120), the speed of normal(10, 2).
SimulatorDraws ==
    [ vehicle_trial |-> [a \in DirSet |-> IF a \in {"N", "E"} THEN {5, 950} ELSE {950}],
      pedestrian_trial |-> [a \in DirSet |-> IF a = "N" THEN {5, 950} ELSE {950}],
      emergency_trial |-> {5, 950},
      movement |-> {100, 850},
      emergency_approach |-> {"S"},
      vehicle_distance |-> {500},
      vehicle_speed |-> {80, 140},
      pedestrian_distance |-> {200},
      emergency_distance |-> {1000} ]

\* The functions f on the approaches with f[a] \in draws[a].
TrialVectors(draws) == {f \in [DirSet -> UNION {draws[a] : a \in DirSet}] :
                           \A a \in DirSet : f[a] \in draws[a]}

\* The approaches whose spawn trial succeeds under the trials u.
Spawning(rates, u) == {a \in DirSet : u[a] < rates[a]}

NumSpawned(rates, u) == Cardinality(Spawning(rates, u))

\* The spawn trials of one tick of s, <<vehicles, pedestrians, emergency>>,
\* that spawn no more than `budget` objects.
Trials(space, s, budget) ==
    { t \in TrialVectors(space.vehicle_trial) \X TrialVectors(space.pedestrian_trial)
            \X space.emergency_trial :
        NumSpawned(s.spawn_rates, t[1]) + NumSpawned(s.pedestrian_spawn_rates, t[2])
        + (IF t[3] < EMERGENCY_SPAWN_RATE THEN 1 ELSE 0) <= budget }

\* The draws of one tick whose spawn trials are uv (vehicles), up
\* (pedestrians) and ue (emergency): the further values are drawn only where
\* the trial succeeds.
TickDraws(space, s, uv, up, ue) ==
    { [ veh |-> [a \in DirSet |->
                    IF a \in DOMAIN v
                    THEN [u |-> uv[a], m |-> v[a].m, d |-> v[a].d, s |-> v[a].s]
                    ELSE [u |-> uv[a], m |-> 0, d |-> 0, s |-> 0]],
        ped |-> [a \in DirSet |->
                    IF a \in DOMAIN q THEN [u |-> up[a], d |-> q[a]]
                    ELSE [u |-> up[a], d |-> 0]],
        emg |-> e ] :
      v \in [Spawning(s.spawn_rates, uv) ->
                [m : space.movement, d : space.vehicle_distance, s : space.vehicle_speed]],
      q \in [Spawning(s.pedestrian_spawn_rates, up) -> space.pedestrian_distance],
      e \in IF ue < EMERGENCY_SPAWN_RATE
            THEN [u : {ue}, a : space.emergency_approach, d : space.emergency_distance]
            ELSE {[u |-> ue, a |-> "N", d |-> 0]} }

\* The draws of one tick of s that spawn no more than `budget` objects.
BoundedDraws(space, s, budget) ==
    UNION {TickDraws(space, s, t[1], t[2], t[3]) : t \in Trials(space, s, budget)}

----------------------------------------------------------------------------
(* The state *)

VARIABLES
    sim,        \* the SimpleTrafficSimulator
    lastDf,     \* what the last call returned: generate_timestep's DataFrame, or none
    lastOp,     \* the last simulator call: its name, its inputs, get_stats() before it
    encIn,      \* the DataFrame given to the StateEncoder
    encOut,     \* the last StateEncoder.encode call: its arguments and its result
    env,        \* the TrafficEnv (its simulator is sim)
    controller, \* the SignalController of the TrafficEnv
    envRet,     \* the last TrafficEnv call: its arguments and what it returned
    trainer,    \* a Trainer over env and agent: its arguments and its place in train()
    rng,        \* numpy's global random stream: its seed and the values taken
    runs,       \* two simulator runs of one process that draw from rng
    procs,      \* two processes, each with a numpy stream, a simulator and an agent
    rb,         \* a ReplayBuffer
    rbLog,      \* every transition pushed into rb, and the last call on rb
    agent,      \* a DQNAgent
    agentRet,   \* the last call on agent: its arguments, the agent before, the result
    pq,         \* an AStarPriorityQueue
    pqLog,      \* the last call on pq, and the pushed objects not yet returned
    ctl,        \* a SignalController driven directly
    ctlLog,     \* the last call on ctl: its arguments, the controller before, the result
    calcIn,     \* the arguments of a reward calculation
    calcOut,    \* what gini_coefficient or calculate returned for calcIn
    ckpt,       \* the checkpoint file of the agent, and the agent that saved it
    restored    \* a fresh agent that loaded the checkpoint, and the agent that saved it

simVars == <<sim, lastDf, lastOp>>
encVars == <<encIn, encOut>>
envVars == <<env, controller, envRet, trainer>>
seedVars == <<rng, runs, procs>>
bufVars == <<rb, rbLog>>
agentVars == <<agent, agentRet, ckpt, restored>>
queueVars == <<pq, pqLog>>
ctlVars == <<ctl, ctlLog>>
calcVars == <<calcIn, calcOut>>
unitVars == <<bufVars, agentVars, queueVars, ctlVars, calcVars>>
systemVars == <<simVars, encVars, envVars, seedVars>>
vars == <<systemVars, unitVars>>

\* The record of a call: before is get_stats() before the call (before the
\* first of a run of resets), run the number of resets in a row, up to 2.
Call(op, signal_state, dt, s) ==
    [ op |-> op, signal_state |-> signal_state, dt |-> dt,
      before |-> IF op = "reset" /\ lastOp.op = "reset" THEN lastOp.before ELSE GetStats(s),
      run |-> IF op = "reset" /\ lastOp.op = "reset" THEN 2 ELSE 1 ]

NoSignal == [a \in DirSet |-> RED]

NotEncoded ==
    [ called |-> FALSE, signal_state |-> NoSignal, approach_waits |-> [a \in DirSet |-> 0],
      time_in_phase |-> 0, raised |-> "none", state |-> <<>> ]

EncoderIdle == encIn = EmptyDataFrame /\ encOut = NotEncoded

\* The record of a TrafficEnv call: k counts the step calls since the last
\* reset (or the construction), valid_only tells that each of them was given
\* an int of [0, 11), changed that the call changed the environment, its
\* controller or its simulator.
EnvCall(op, action, seed, r, k, valid_only, after_reset) ==
    [ op |-> op, action |-> action, seed |-> seed, raised |-> r.raised, ret |-> r.ret,
      k |-> k, valid_only |-> valid_only, after_reset |-> after_reset,
      changed |-> <<r.env, r.controller, r.sim>> # <<env, controller, sim>> ]

\* A Trainer whose train() has not been called.
NoTrainer ==
    [ episodes |-> 0, batch_size |-> 0, episode |-> 0, pc |-> "idle", raised |-> "none",
      state |-> <<>>, action |-> 0, reward |-> 0, next_state |-> <<>>, done |-> FALSE,
      truncated |-> FALSE, steps |-> 0, stored |-> <<>> ]

EnvIdle ==
    /\ trainer = NoTrainer
    /\ env = NewEnv(200)
    /\ controller = NewController
    /\ envRet = [ op |-> "init", action |-> IntAction(0), seed |-> <<>>,
                  raised |-> "none", ret |-> NoReturn, k |-> 0, valid_only |-> TRUE,
                  after_reset |-> FALSE, changed |-> FALSE ]

RunNames == {"A", "B"}

\* A run not constructed yet.
NoRun ==
    [ made |-> FALSE, seed |-> 0, clean |-> TRUE, disturbed |-> FALSE, hist |-> <<>>,
      sim |-> NewSimulator(0, [spawn_rates |-> NoOverride,
                               pedestrian_spawn_rates |-> NoOverride]) ]

\* A process not started yet.
NoProcess ==
    [ made |-> FALSE, seed |-> 0, training |-> FALSE, batch_size |-> 0, pc |-> "select",
      rng |-> [seed |-> 0, pos |-> 0], agent_draws |-> 0, hist |-> <<>>,
      agent |-> NewAgent, state |-> <<0>>, action |-> 0,
      sim |-> NewSimulator(0, [spawn_rates |-> NoOverride,
                               pedestrian_spawn_rates |-> NoOverride]) ]

SeedIdle ==
    /\ rng = [seed |-> 0, pos |-> 0]
    /\ runs = [r \in RunNames |-> NoRun]
    /\ procs = [r \in RunNames |-> NoProcess]

BufferIdle ==
    /\ rb = NewReplayBuffer(10000)
    /\ rbLog = [pushed |-> <<>>, op |-> "init", before |-> <<>>, raised |-> "none",
                batch |-> <<>>]

AgentIdle ==
    /\ agent = NewAgent
    /\ agentRet = [ op |-> "init", batch_size |-> 0, before |-> NewAgent,
                    raised |-> "none", ret |-> NotTrained ]
    /\ ckpt = [file |-> <<>>, saver |-> NewAgent]
    /\ restored = [loaded |-> FALSE, agent |-> NewAgent, saver |-> NewAgent]

QueueIdle ==
    /\ pq = NewQueue
    /\ pqLog = [ op |-> "init", k |-> <<>>, pushes |-> 0, before |-> <<>>, live |-> <<>>,
                 ret |-> None, popped |-> <<>> ]

ControllerIdle ==
    /\ ctl = NewController
    /\ ctlLog = [ op |-> "init", direction |-> "N", state |-> RED, amount |-> 0,
                  raised |-> "none", before |-> NewController ]

CalcArgs(queue_sizes, risky_events, pedestrian_waiting) ==
    [ queue_sizes |-> queue_sizes, wait_times |-> [d \in DirSet |-> 0],
      risky_events |-> risky_events, pedestrian_waiting |-> pedestrian_waiting ]

NotCalculated ==
    [ op |-> "none", gini |-> Ratio(0, 1),
      terms |-> RewardTerms(0, Ratio(0, 1), 0, 0) ]

CalculatorIdle ==
    /\ calcIn = CalcArgs([d \in DirSet |-> 0], 0, 0)
    /\ calcOut = NotCalculated

\* The components exercised on their own are as constructed.
UnitsIdle == BufferIdle /\ AgentIdle /\ QueueIdle /\ ControllerIdle /\ CalculatorIdle

SimulatorIdle ==
    /\ sim = NewSimulator(42, [spawn_rates |-> NoOverride,
                               pedestrian_spawn_rates |-> NoOverride])
    /\ lastDf = EmptyDataFrame
    /\ lastOp = [op |-> "init", signal_state |-> NoSignal, dt |-> 0, run |-> 1,
                 before |-> GetStats(sim)]

----------------------------------------------------------------------------
(* The simulator driven directly *)

Init ==
    /\ \E config \in SimConfigs :
          sim = SimulatorFactoryCreate("simple", 42, config).sim
    /\ lastDf = EmptyDataFrame
    /\ lastOp = [op |-> "init", signal_state |-> NoSignal, dt |-> 0, run |-> 1,
                 before |-> GetStats(sim)]
    /\ EncoderIdle
    /\ EnvIdle
    /\ SeedIdle
    /\ UnitsIdle

\* sim.reset()
Reset ==
    /\ sim' = SimulatorReset(sim)
    /\ lastOp' = Call("reset", NoSignal, 0, sim)
    /\ lastDf' = EmptyDataFrame
    /\ UNCHANGED <<encVars, envVars, seedVars, unitVars>>

\* sim.generate_timestep(signal_state, dt)
Tick ==
    /\ sim.current_timestep < MaxTicks
    /\ \E draws \in BoundedDraws(SimulatorDraws, sim, MaxSpawned - sim.spawned_count) :
       \E signal_state \in SignalInputs, dt \in DtValues :
          LET r == GenerateTimestep(sim, signal_state, dt, draws)
          IN /\ sim' = r.sim
             /\ lastDf' = r.df
             /\ lastOp' = Call("tick", signal_state, dt, sim)
    /\ UNCHANGED <<encVars, envVars, seedVars, unitVars>>

Next == Reset \/ Tick

Spec == Init /\ [][Next]_vars

----------------------------------------------------------------------------
(* The state encoder applied to snapshots *)

\* The DataFrame of test_state_encoder: one vehicle row.
SampleDataFrame ==
    [ rows |-> << [ object_id |-> <<"V", 0, "N", 0>>, type |-> "vehicle",
                    approach |-> "N", distance_m |-> 300, speed_m_s |-> 80,
                    movement |-> "straight", f_val |-> 300, h_val |-> 37,
                    priority_score |-> 337, committed |-> 0, in_crosswalk |-> 0,
                    wait_time |-> 5 ] >>,
      columns |-> VehicleColumns \ {"lane"},
      timestamp |-> 0 ]

\* The draws of a tick in which N, S and E may each spawn a vehicle.
EncoderDraws ==
    [SimulatorDraws EXCEPT
        !.vehicle_trial = [a \in DirSet |-> IF a = "W" THEN {950} ELSE {5, 950}]]

DefaultSimulator ==
    SimulatorFactoryCreate("simple", 42, [spawn_rates |-> NoOverride,
                                         pedestrian_spawn_rates |-> NoOverride]).sim

\* The snapshots encoded: none yet, the test's, and every snapshot a new
\* simulator with the default rates emits on its first tick.
EncoderFrames ==
    {EmptyDataFrame, SampleDataFrame}
    \cup { GenerateTimestep(DefaultSimulator, NoSignal, 1, draws).df :
             draws \in BoundedDraws(EncoderDraws, DefaultSimulator, 5) }

\* Wait times per approach, in tenths of a second: none, some, one beyond
\* max_wait, one negative.
WaitInputs ==
    { [a \in DirSet |-> 0],
      [a \in DirSet |-> IF a = "N" THEN 1500 ELSE 35],
      [a \in DirSet |-> IF a = "E" THEN -10 ELSE 1200] }

TimeInPhaseInputs == {0, 5, 75}

InitEnc ==
    /\ SimulatorIdle
    /\ encIn \in EncoderFrames
    /\ encOut = NotEncoded
    /\ EnvIdle
    /\ SeedIdle
    /\ UnitsIdle

\* encoder.encode(encIn, signal_state, approach_waits, time_in_phase)
EncodeCall ==
    /\ ~encOut.called
    /\ \E signal_state \in SignalInputs, approach_waits \in WaitInputs,
          time_in_phase \in TimeInPhaseInputs :
          LET r == Encode(encIn, signal_state, approach_waits, time_in_phase)
          IN encOut' = [ called |-> TRUE, signal_state |-> signal_state,
                         approach_waits |-> approach_waits,
                         time_in_phase |-> time_in_phase,
                         raised |-> r.raised, state |-> r.state ]
    /\ UNCHANGED <<encIn, simVars, envVars, seedVars, unitVars>>

NextEnc == EncodeCall

SpecEnc == InitEnc /\ [][NextEnc]_vars

----------------------------------------------------------------------------
(* The environment: TrafficEnv over a simulator, reset and stepped *)

\* The simulators handed to TrafficEnv: the default one, and one that spawns
\* no vehicle and a pedestrian at N on every tick.
EnvConfigs ==
    { [spawn_rates |-> NoOverride, pedestrian_spawn_rates |-> NoOverride],
      [spawn_rates |-> [a \in DirSet |-> 0],
       pedestrian_spawn_rates |-> [a \in DirSet |-> IF a = "N" THEN 1000 ELSE 0]] }

\* The draws of a tick of the environment's simulator: a vehicle or a
\* pedestrian may spawn at N.
EnvironmentDraws ==
    [SimulatorDraws EXCEPT
        !.vehicle_trial = [a \in DirSet |-> IF a = "N" THEN {5, 950} ELSE {950}],
        !.emergency_trial = {950},
        !.movement = {100},
        !.vehicle_speed = {80}]

\* The values handed to step: 0 and 10, -1 and 11, 2.7 and 11.5.
StepInputs ==
    {IntAction(0), IntAction(10), IntAction(-1), IntAction(11),
     FloatAction(27), FloatAction(115)}

\* The given action is an integer of [0, 11).
ValidGiven(action) == action.type = "int" /\ ActionSpaceContains(action.value)

\* reset() and reset(seed=7)
SeedInputs == {<<>>, <<7>>}

NoDraws ==
    [ veh |-> [a \in DirSet |-> [u |-> 1000, m |-> 0, d |-> 0, s |-> 0]],
      ped |-> [a \in DirSet |-> [u |-> 1000, d |-> 0]],
      emg |-> [u |-> 1000, a |-> "N", d |-> 0] ]

InitEnv ==
    /\ \E config \in EnvConfigs :
          sim = SimulatorFactoryCreate("simple", 42, config).sim
    /\ lastDf = EmptyDataFrame
    /\ lastOp = [op |-> "init", signal_state |-> NoSignal, dt |-> 0, run |-> 1,
                 before |-> GetStats(sim)]
    /\ EncoderIdle
    /\ \E max_steps \in 1..MaxSteps : env = NewEnv(max_steps)
    /\ controller = NewController
    /\ envRet = [ op |-> "init", action |-> IntAction(0), seed |-> <<>>,
                  raised |-> "none", ret |-> NoReturn, k |-> 0, valid_only |-> TRUE,
                  after_reset |-> FALSE, changed |-> FALSE ]
    /\ trainer = NoTrainer
    /\ SeedIdle
    /\ UnitsIdle

\* env.reset(seed=seed)
EnvResetCall ==
    /\ \E seed \in SeedInputs :
       \E r \in {EnvReset(env, controller, sim, seed)} :
          /\ env' = r.env
          /\ controller' = r.controller
          /\ sim' = r.sim
          /\ envRet' = EnvCall("reset", IntAction(0), seed, r, 0, TRUE, TRUE)
    /\ UNCHANGED <<trainer, lastDf, lastOp, encVars, seedVars, unitVars>>

\* env.step(action): the random stream is read only by an accepted call.
EnvStepCall ==
    /\ envRet.k <= MaxSteps
    /\ \E action \in StepInputs :
       \E draws \in IF ActionSpaceContains(CoerceAction(action))
                    THEN BoundedDraws(EnvironmentDraws, sim, 2 * Len(Directions) + 1)
                    ELSE {NoDraws} :
       \E r \in {Step(env, controller, sim, action, draws)} :
          /\ env' = r.env
          /\ controller' = r.controller
          /\ sim' = r.sim
          /\ envRet' = EnvCall("step", action, <<>>, r, envRet.k + 1,
                               envRet.valid_only /\ ValidGiven(action),
                               envRet.after_reset)
    /\ UNCHANGED <<trainer, lastDf, lastOp, encVars, seedVars, unitVars>>

NextEnv == EnvResetCall \/ EnvStepCall

SpecEnv == InitEnv /\ [][NextEnv]_vars

\* The simulator, the encoder, the environment and the two runs are as
\* constructed.
SystemIdle == SimulatorIdle /\ EncoderIdle /\ EnvIdle /\ SeedIdle

----------------------------------------------------------------------------
(* Two simulator runs over numpy's global random stream *)

\* The pos-th value, in thousandths, of the stream seeded with `seed`: a
\* fixed function of the two, as the generator's output is.
Stream(seed, pos) ==
    ((seed * 31 + 17) * (pos + 3) * (pos + 7) + pos * 389) % 1000

\* A seeding that does not rewind the stream.
SeedStreamKeepsPosition(g, seed) == [g EXCEPT !.seed = seed]

\* np.random.seed(seed)
SeedStream(g, seed) == [g EXCEPT !.seed = seed, !.pos = 0]

\* One value taken from the stream.
Take(g) == [value |-> Stream(g.seed, g.pos), rng |-> [g EXCEPT !.pos = @ + 1]]

\* np.random.normal(10, 2) of the stream value u, in tenths of m/s.
NormalSpeed(u) == 100 + (u - 500) \div 25

\* The draws _spawn_vehicles takes for the approaches i.. of Directions: the
\* trial, and for a spawning approach the movement, the distance of
\* uniform(50, 150) and the speed.
RECURSIVE StreamVehicleDraws(_, _, _)
StreamVehicleDraws(s, i, g) ==
    IF i > Len(Directions) THEN [draws |-> <<>>, rng |-> g]
    ELSE LET u == Take(g)
             m == Take(u.rng)
             d == Take(m.rng)
             v == Take(d.rng)
             spawns == u.value < s.spawn_rates[Directions[i]]
             rest == StreamVehicleDraws(s, i + 1, IF spawns THEN v.rng ELSE u.rng)
         IN [ draws |-> << IF spawns
                           THEN [u |-> u.value, m |-> m.value, d |-> 500 + d.value,
                                 s |-> NormalSpeed(v.value)]
                           ELSE [u |-> u.value, m |-> 0, d |-> 0, s |-> 0] >>
                        \o rest.draws,
              rng |-> rest.rng ]

\* The draws _spawn_pedestrians takes: the trial, and the distance of
\* uniform(10, 30).
RECURSIVE StreamPedestrianDraws(_, _, _)
StreamPedestrianDraws(s, i, g) ==
    IF i > Len(Directions) THEN [draws |-> <<>>, rng |-> g]
    ELSE LET u == Take(g)
             d == Take(u.rng)
             spawns == u.value < s.pedestrian_spawn_rates[Directions[i]]
             rest == StreamPedestrianDraws(s, i + 1, IF spawns THEN d.rng ELSE u.rng)
         IN [ draws |-> << IF spawns THEN [u |-> u.value, d |-> 100 + d.value \div 5]
                           ELSE [u |-> u.value, d |-> 0] >>
                        \o rest.draws,
              rng |-> rest.rng ]

\* The draws _spawn_emergency_vehicles takes: the trial, and on a spawn the
\* approach of np.random.choice and the distance of uniform(80, 120).
StreamEmergencyDraw(g) ==
    LET u == Take(g)
        a == Take(u.rng)
        d == Take(a.rng)
    IN IF u.value < EMERGENCY_SPAWN_RATE
       THEN [ draw |-> [u |-> u.value,
                        a |-> Directions[(a.value * Len(Directions)) \div 1000 + 1],
                        d |-> 800 + (d.value * 2) \div 5],
              rng |-> d.rng ]
       ELSE [draw |-> [u |-> u.value, a |-> "N", d |-> 0], rng |-> u.rng]

\* The draws of one generate_timestep of s from the stream g, and the stream
\* after them.
StreamDraws(s, g) ==
    LET v == StreamVehicleDraws(s, 1, g)
        p == StreamPedestrianDraws(s, 1, v.rng)
        e == StreamEmergencyDraw(p.rng)
        index == [a \in DirSet |-> CHOOSE i \in 1..Len(Directions) : Directions[i] = a]
    IN [ draws |-> [ veh |-> [a \in DirSet |-> v.draws[index[a]]],
                     ped |-> [a \in DirSet |-> p.draws[index[a]]],
                     emg |-> e.draw ],
         rng |-> e.rng ]

SeqRange(q) == {q[i] : i \in 1..Len(q)}

\* What a run shows after a tick: the counters and the live objects.
Outcome(s) ==
    [ spawned_count |-> s.spawned_count,
      cleared_count |-> s.cleared_count,
      vehicles |-> SeqRange(s.vehicles),
      pedestrians |-> SeqRange(s.pedestrians),
      emergency_vehicles |-> SeqRange(s.emergency_vehicles) ]

\* The seeds the runs are constructed with, and the signal states that drive
\* them.
RunSeeds == {42, 7}
RunSignals == {NoSignal, [a \in DirSet |-> IF a \in {"N", "S"} THEN GREEN ELSE RED]}

\* The other run has used the stream: a run that draws after that is no
\* longer a run of its own.
Disturb(run) == IF run.made THEN [run EXCEPT !.disturbed = TRUE] ELSE run

InitSeed ==
    /\ SimulatorIdle
    /\ EncoderIdle
    /\ EnvIdle
    /\ SeedIdle
    /\ UnitsIdle

\* runs[r] = SimulatorFactory.create('simple', seed=seed)
ConstructRun(r) ==
    /\ ~runs[r].made
    /\ \E seed \in RunSeeds :
          /\ rng' = SeedStream(rng, seed)
          /\ runs' = [o \in RunNames |->
                        IF o = r
                        THEN [ made |-> TRUE, seed |-> seed, clean |-> TRUE,
                               disturbed |-> FALSE, hist |-> <<>>,
                               sim |-> SimulatorFactoryCreate("simple", seed,
                                          [spawn_rates |-> NoOverride,
                                           pedestrian_spawn_rates |-> NoOverride]).sim ]
                        ELSE Disturb(runs[o])]
    /\ UNCHANGED <<procs, simVars, encVars, envVars, unitVars>>

\* runs[r].generate_timestep(signal_state, dt=1.0)
TickRun(r) ==
    /\ runs[r].made
    /\ runs[r].sim.current_timestep < MaxTicks
    /\ \E signal_state \in RunSignals :
          LET taken == StreamDraws(runs[r].sim, rng)
              tick == GenerateTimestep(runs[r].sim, signal_state, 1, taken.draws)
          IN /\ rng' = taken.rng
             /\ runs' = [o \in RunNames |->
                           IF o = r
                           THEN [runs[r] EXCEPT
                                    !.sim = tick.sim,
                                    !.clean = @ /\ ~runs[r].disturbed,
                                    !.hist = Append(@, [signal_state |-> signal_state,
                                                        dt |-> 1,
                                                        outcome |-> Outcome(tick.sim)])]
                           ELSE Disturb(runs[o])]
    /\ UNCHANGED <<procs, simVars, encVars, envVars, unitVars>>

NextSeed == \E r \in RunNames : ConstructRun(r) \/ TickRun(r)

SpecSeed == InitSeed /\ [][NextSeed]_vars

----------------------------------------------------------------------------
(* A ReplayBuffer pushed into and sampled *)

\* The transitions pushed: (state, action, reward, next_state, done).
TransitionInputs ==
    { [state |-> <<0>>, action |-> 0, reward |-> -10, next_state |-> <<1>>, done |-> FALSE],
      [state |-> <<1>>, action |-> 10, reward |-> -11, next_state |-> <<0>>, done |-> TRUE] }

InitBuf ==
    /\ SystemIdle
    /\ \E capacity \in 0..MaxCapacity : rb = NewReplayBuffer(capacity)
    /\ rbLog = [pushed |-> <<>>, op |-> "init", before |-> <<>>, raised |-> "none",
                batch |-> <<>>]
    /\ AgentIdle
    /\ QueueIdle
    /\ ControllerIdle
    /\ CalculatorIdle

\* rb.push(*transition)
BufPush ==
    /\ Len(rbLog.pushed) < MaxPushes
    /\ \E transition \in TransitionInputs :
          /\ rb' = ReplayPush(rb, transition)
          /\ rbLog' = [pushed |-> Append(rbLog.pushed, transition), op |-> "push",
                       before |-> rb.buffer, raised |-> "none", batch |-> <<>>]
    /\ UNCHANGED <<systemVars, agentVars, queueVars, ctlVars, calcVars>>

\* rb.sample(batch_size)
BufSample ==
    /\ \E batch_size \in 0..MaxCapacity + 1 :
       \E indices \in ChoiceWithoutReplacement(Len(rb.buffer),
                                               Min(batch_size, Len(rb.buffer))) :
       \E r \in {ReplaySample(rb, batch_size, indices)} :
          /\ rb' = r.rb
          /\ rbLog' = [rbLog EXCEPT !.op = "sample", !.before = rb.buffer,
                                    !.raised = r.raised, !.batch = r.batch]
    /\ UNCHANGED <<systemVars, agentVars, queueVars, ctlVars, calcVars>>

NextBuf == BufPush \/ BufSample

SpecBuf == InitBuf /\ [][NextBuf]_vars

----------------------------------------------------------------------------
(* A DQNAgent that stores experience and trains *)

\* The batch sizes handed to train.
BatchSizeInputs == {0, 1, 2, 3}

\* The losses the networks give: some non-negative numbers, in thousandths.
LossValues == {0, 250}

\* The arguments of select_action: a state, training, and the draws.
SelectStates == {<<0>>, <<1>>}
SelectDraws == {0, 999}
RandintDraws == {TOTAL_ACTIONS - 1}

InitAgent ==
    /\ SystemIdle
    /\ BufferIdle
    /\ AgentIdle
    /\ QueueIdle
    /\ ControllerIdle
    /\ CalculatorIdle

\* agent.store_experience(*transition)
AgentStore ==
    /\ ReplayLen(agent.replay_buffer) < MaxStored
    /\ \E transition \in TransitionInputs :
          /\ agent' = StoreExperience(agent, transition)
          /\ agentRet' = [ op |-> "store_experience", batch_size |-> 0, before |-> agent,
                           raised |-> "none", ret |-> NotTrained ]
    /\ UNCHANGED <<ckpt, restored, systemVars, bufVars, queueVars, ctlVars, calcVars>>

\* agent.train(batch_size): the indices and the loss are drawn only by a
\* call that finds enough transitions.
AgentTrain ==
    /\ agent.update_counter < MaxTrains
    /\ \E batch_size \in BatchSizeInputs :
       \E indices \in ChoiceWithoutReplacement(
                          ReplayLen(agent.replay_buffer),
                          IF ReplayLen(agent.replay_buffer) < batch_size
                          THEN 0 ELSE batch_size) :
       \E loss \in IF 0 < batch_size /\ batch_size <= ReplayLen(agent.replay_buffer)
                   THEN LossValues ELSE {0} :
       \E r \in {Train(agent, batch_size, indices, loss)} :
          /\ agent' = r.agent
          /\ agentRet' = [ op |-> "train", batch_size |-> batch_size, before |-> agent,
                           raised |-> r.raised, ret |-> r.ret ]
    /\ UNCHANGED <<ckpt, restored, systemVars, bufVars, queueVars, ctlVars, calcVars>>

\* agent.select_action(state, training)
AgentSelect ==
    /\ \E state \in SelectStates, training \in BOOLEAN,
          u \in SelectDraws, randint \in RandintDraws :
       \E r \in {SelectAction(agent, state, training, u, randint)} :
          /\ agent' = agent
          /\ agentRet' = [ op |-> "select_action", batch_size |-> 0, before |-> agent,
                           raised |-> "none",
                           ret |-> [kind |-> "int", value |-> r.action] ]
    /\ UNCHANGED <<ckpt, restored, systemVars, bufVars, queueVars, ctlVars, calcVars>>

NextAgent == AgentStore \/ AgentTrain \/ AgentSelect

SpecAgent == InitAgent /\ [][NextAgent]_vars

----------------------------------------------------------------------------
(* A DQNAgent far into its training: the target schedule and the floor of
   epsilon *)

\* Completed updates an agent starts with: none, two short of the first load
\* of the target network, one short of the update that brings epsilon to
\* epsilon_min.
PretrainedUpdates == {0, 98, 916}

\* The transition the agent stores and trains on.
ScheduleTransition ==
    [state |-> <<0>>, action |-> 0, reward |-> -10, next_state |-> <<1>>, done |-> FALSE]

\* A new agent, or one that stored a transition and trained n times on it.
Pretrained(n) ==
    IF n = 0 THEN NewAgent
    ELSE TrainedTimes(ScheduleTransition, n)

\* The updates the agent had completed when the run began.
UpdatesAtStart(a) ==
    CHOOSE p \in PretrainedUpdates :
       /\ p <= a.update_counter
       /\ \A q \in PretrainedUpdates : q <= a.update_counter => q <= p

\* train is called with a batch of one, and with a batch larger than the
\* buffer can be.
ScheduleBatchSizes == {1, MaxStored + 1}

InitSchedule ==
    /\ SystemIdle
    /\ BufferIdle
    /\ agent \in {Pretrained(n) : n \in PretrainedUpdates}
    /\ agentRet = [ op |-> "init", batch_size |-> 0, before |-> NewAgent,
                    raised |-> "none", ret |-> NotTrained ]
    /\ ckpt = [file |-> <<>>, saver |-> NewAgent]
    /\ restored = [loaded |-> FALSE, agent |-> NewAgent, saver |-> NewAgent]
    /\ QueueIdle
    /\ ControllerIdle
    /\ CalculatorIdle

\* agent.store_experience(*transition)
ScheduleStore ==
    /\ ReplayLen(agent.replay_buffer) < MaxStored
    /\ agent' = StoreExperience(agent, ScheduleTransition)
    /\ agentRet' = [ op |-> "store_experience", batch_size |-> 0, before |-> agent,
                     raised |-> "none", ret |-> NotTrained ]
    /\ UNCHANGED <<ckpt, restored, systemVars, bufVars, queueVars, ctlVars, calcVars>>

\* agent.train(batch_size)
ScheduleTrain ==
    /\ agent.update_counter - UpdatesAtStart(agent) < MaxTrains
    /\ \E batch_size \in ScheduleBatchSizes :
       \E indices \in ChoiceWithoutReplacement(
                          ReplayLen(agent.replay_buffer),
                          IF ReplayLen(agent.replay_buffer) < batch_size
                          THEN 0 ELSE batch_size) :
       \E r \in {Train(agent, batch_size, indices, 0)} :
          /\ agent' = r.agent
          /\ agentRet' = [ op |-> "train", batch_size |-> batch_size, before |-> agent,
                           raised |-> r.raised, ret |-> r.ret ]
    /\ UNCHANGED <<ckpt, restored, systemVars, bufVars, queueVars, ctlVars, calcVars>>

\* agent.select_action(state, training)
ScheduleSelect ==
    /\ \E state \in SelectStates, training \in BOOLEAN,
          u \in SelectDraws, randint \in RandintDraws :
       \E r \in {SelectAction(agent, state, training, u, randint)} :
          /\ agent' = agent
          /\ agentRet' = [ op |-> "select_action", batch_size |-> 0, before |-> agent,
                           raised |-> "none",
                           ret |-> [kind |-> "int", value |-> r.action] ]
    /\ UNCHANGED <<ckpt, restored, systemVars, bufVars, queueVars, ctlVars, calcVars>>

NextSchedule == ScheduleStore \/ ScheduleTrain \/ ScheduleSelect

SpecSchedule == InitSchedule /\ [][NextSchedule]_vars

----------------------------------------------------------------------------
(* A DQNAgent saved, and the checkpoint loaded into a new agent *)

InitCheckpoint ==
    /\ SystemIdle
    /\ BufferIdle
    /\ AgentIdle
    /\ QueueIdle
    /\ ControllerIdle
    /\ CalculatorIdle

\* agent.save_model(path): the file holds what torch.save was given.
CheckpointSave ==
    /\ ckpt' = [file |-> <<SaveModel(agent)>>, saver |-> agent]
    /\ agentRet' = [ op |-> "save_model", batch_size |-> 0, before |-> agent,
                     raised |-> "none", ret |-> NotTrained ]
    /\ UNCHANGED <<agent, restored, systemVars, bufVars, queueVars, ctlVars, calcVars>>

\* DQNAgent(state_size, action_size).load_model(path), once the file exists
CheckpointLoad ==
    /\ ckpt.file # <<>>
    /\ restored' = [ loaded |-> TRUE, agent |-> LoadModel(NewAgent, ckpt.file[1]),
                     saver |-> ckpt.saver ]
    /\ UNCHANGED <<agent, agentRet, ckpt, systemVars, bufVars, queueVars, ctlVars, calcVars>>

NextCheckpoint == ScheduleStore \/ ScheduleTrain \/ CheckpointSave \/ CheckpointLoad

SpecCheckpoint == InitCheckpoint /\ [][NextCheckpoint]_vars

----------------------------------------------------------------------------
(* An AStarPriorityQueue pushed into and popped from *)

\* The priorities pushed; the object pushed is the number of the push.
PriorityInputs == {-1, 0, 5}

\* The k handed to pop_all: None (<<>>) or an integer.
PopAllInputs == {<<>>, <<0>>, <<1>>, <<2>>, <<MaxQueued + 1>>}

\* The entries of `live` whose object is not among `objs`.
Without(live, objs) ==
    LET Kept(e) == e.obj \notin objs IN SelectSeq(live, Kept)

InitQueue ==
    /\ SystemIdle
    /\ BufferIdle
    /\ AgentIdle
    /\ QueueIdle
    /\ ControllerIdle
    /\ CalculatorIdle

\* pq.push(priority, obj)
QueuePushCall ==
    /\ pqLog.pushes < MaxQueued
    /\ \E priority \in PriorityInputs :
          /\ pq' = QueuePush(pq, priority, pqLog.pushes + 1)
          /\ pqLog' = [ op |-> "push", k |-> <<>>, pushes |-> pqLog.pushes + 1,
                        before |-> pqLog.live,
                        live |-> Append(pqLog.live, [priority |-> priority,
                                                     obj |-> pqLog.pushes + 1]),
                        ret |-> None, popped |-> <<>> ]
    /\ UNCHANGED <<systemVars, bufVars, agentVars, ctlVars, calcVars>>

\* pq.pop()
QueuePopCall ==
    /\ \E r \in {QueuePop(pq)} :
          /\ pq' = r.q
          /\ pqLog' = [ pqLog EXCEPT !.op = "pop", !.k = <<>>, !.before = pqLog.live,
                                     !.live = Without(pqLog.live, {r.ret.obj}),
                                     !.ret = r.ret, !.popped = <<>> ]
    /\ UNCHANGED <<systemVars, bufVars, agentVars, ctlVars, calcVars>>

\* pq.pop_all(k)
QueuePopAllCall ==
    /\ \E k \in PopAllInputs :
       \E r \in {QueuePopAll(pq, k)} :
          /\ pq' = r.q
          /\ pqLog' = [ pqLog EXCEPT !.op = "pop_all", !.k = k, !.before = pqLog.live,
                                     !.live = Without(pqLog.live, SeqRange(r.ret)),
                                     !.ret = None, !.popped = r.ret ]
    /\ UNCHANGED <<systemVars, bufVars, agentVars, ctlVars, calcVars>>

\* pq.clear()
QueueClearCall ==
    /\ pq' = QueueClear(pq)
    /\ pqLog' = [ pqLog EXCEPT !.op = "clear", !.k = <<>>, !.before = pqLog.live,
                               !.live = <<>>, !.ret = None, !.popped = <<>> ]
    /\ UNCHANGED <<systemVars, bufVars, agentVars, ctlVars, calcVars>>

NextQueue == QueuePushCall \/ QueuePopCall \/ QueuePopAllCall \/ QueueClearCall

SpecQueue == InitQueue /\ [][NextQueue]_vars

----------------------------------------------------------------------------
(* A SignalController set, updated and reset *)

\* The directions and states handed to set_signal: the four directions and
\* another name, the four signal states and another name.
DirectionInputs == DirSet \cup {"X"}
StateInputs == {GREEN, RED, ORANGE, ALL_RED, "blue"}

\* Durations and dt, in seconds.
DurationInputs == {0, 3}
UpdateInputs == {0, 1, 2}

InitCtl ==
    /\ SystemIdle
    /\ BufferIdle
    /\ AgentIdle
    /\ QueueIdle
    /\ ControllerIdle
    /\ CalculatorIdle

\* ctl.set_signal(direction, state, duration)
CtlSetSignal ==
    /\ \E direction \in DirectionInputs, state \in StateInputs, duration \in DurationInputs :
       \E r \in {SetSignal(ctl, direction, state, duration)} :
          /\ ctl' = r.controller
          /\ ctlLog' = [ op |-> "set_signal", direction |-> direction, state |-> state,
                         amount |-> duration, raised |-> r.raised, before |-> ctl ]
    /\ UNCHANGED <<systemVars, bufVars, agentVars, queueVars, calcVars>>

\* ctl.update(dt)
CtlUpdate ==
    /\ \E dt \in UpdateInputs :
          /\ ctl' = Update(ctl, dt)
          /\ ctlLog' = [ op |-> "update", direction |-> "N", state |-> RED,
                         amount |-> dt, raised |-> "none", before |-> ctl ]
    /\ UNCHANGED <<systemVars, bufVars, agentVars, queueVars, calcVars>>

\* ctl.reset()
CtlReset ==
    /\ ctl' = ControllerReset(ctl)
    /\ ctlLog' = [ op |-> "reset", direction |-> "N", state |-> RED,
                   amount |-> 0, raised |-> "none", before |-> ctl ]
    /\ UNCHANGED <<systemVars, bufVars, agentVars, queueVars, calcVars>>

NextCtl == CtlSetSignal \/ CtlUpdate \/ CtlReset

SpecCtl == InitCtl /\ [][NextCtl]_vars

----------------------------------------------------------------------------
(* gini_coefficient and HybridRewardCalculator.calculate applied to inputs *)

\* max_steps_per_episode when the configuration does not give it
DEFAULT_MAX_STEPS == 200

\* Vehicles of one approach in a snapshot: _spawn_vehicles can add one to
\* each approach every tick, so DEFAULT_MAX_STEPS can stand there in an episode.
QueueLengthInputs == {0, 1, 2, 3, 10, 30, DEFAULT_MAX_STEPS}

\* risky_events and pedestrian_waiting; at most four pedestrians are spawned
\* a tick.
RiskyEventInputs == {0, 1, 2}
PedestrianWaitingInputs == {0, 1, 50}

InitCalc ==
    /\ SystemIdle
    /\ BufferIdle
    /\ AgentIdle
    /\ QueueIdle
    /\ ControllerIdle
    /\ calcIn \in { CalcArgs(q, r, p) : q \in [DirSet -> QueueLengthInputs],
                                        r \in RiskyEventInputs,
                                        p \in PedestrianWaitingInputs }
    /\ calcOut = NotCalculated

\* MathUtils.gini_coefficient(list(queue_sizes.values()))
GiniCall ==
    /\ calcOut' = [NotCalculated EXCEPT !.op = "gini",
                                        !.gini = Gini(QueueValues(calcIn.queue_sizes))]
    /\ UNCHANGED <<calcIn, systemVars, bufVars, agentVars, queueVars, ctlVars>>

\* HybridRewardCalculator().calculate(queue_sizes, wait_times, risky_events,
\* pedestrian_waiting)
CalculateCall ==
    /\ calcOut' = [NotCalculated EXCEPT
                      !.op = "calculate",
                      !.terms = Calculate(calcIn.queue_sizes, calcIn.wait_times,
                                          calcIn.risky_events, calcIn.pedestrian_waiting)]
    /\ UNCHANGED <<calcIn, systemVars, bufVars, agentVars, queueVars, ctlVars>>

NextCalc == GiniCall \/ CalculateCall

SpecCalc == InitCalc /\ [][NextCalc]_vars

----------------------------------------------------------------------------
(* A run of the agent and the simulator over one numpy stream *)

\* Trainer.__init__: batch_size
DEFAULT_BATCH_SIZE == 32

\* agent.select_action(state, training) reading np.random.random() and
\* np.random.randint(0, action_size) from the stream g.
StreamSelectAction(a, state, training, g) ==
    LET u == Take(g)
        k == Take(u.rng)
        r == SelectAction(a, state, training, u.value,
                          (k.value * TOTAL_ACTIONS) \div 1000)
    IN [ action |-> r.action, draws |-> r.draws,
         rng |-> IF r.draws = 2 THEN k.rng ELSE IF r.draws = 1 THEN u.rng ELSE g ]

\* np.random.choice(n, k, replace=False) from the stream g: k of the indices
\* `remaining`, one value of the stream read for each.
RECURSIVE StreamChoice(_, _, _)
StreamChoice(remaining, k, g) ==
    IF k = 0 THEN [indices |-> <<>>, rng |-> g]
    ELSE LET u == Take(g)
             j == (u.value * Len(remaining)) \div 1000 + 1
             rest == StreamChoice(
                        [i \in 1..(Len(remaining) - 1) |->
                            IF i < j THEN remaining[i] ELSE remaining[i + 1]],
                        k - 1, u.rng)
         IN [indices |-> <<remaining[j]>> \o rest.indices, rng |-> rest.rng]

\* agent.train(batch_size) reading the indices of the batch from the stream g
\* when the buffer holds batch_size transitions.
StreamTrain(a, batch_size, g) ==
    LET n == ReplayLen(a.replay_buffer)
        c == StreamChoice([i \in 1..n |-> i], IF n < batch_size THEN 0 ELSE batch_size, g)
    IN [ agent |-> Train(a, batch_size, c.indices, 0).agent,
         draws |-> Len(c.indices),
         rng |-> c.rng ]

\* A run trains with a batch of one or of the Trainer's default size, or
\* evaluates.
RunBatchSizes == {1, DEFAULT_BATCH_SIZE}

InitRun ==
    /\ SimulatorIdle
    /\ EncoderIdle
    /\ EnvIdle
    /\ SeedIdle
    /\ UnitsIdle

\* Process r constructs its simulator, which seeds the stream, and its agent.
StartRun(r) ==
    /\ ~procs[r].made
    /\ \E seed \in RunSeeds, training \in BOOLEAN, batch_size \in RunBatchSizes :
          /\ training \/ batch_size = DEFAULT_BATCH_SIZE
          /\ procs' = [procs EXCEPT ![r] =
                [ made |-> TRUE, seed |-> seed, training |-> training,
                  batch_size |-> batch_size, pc |-> "select",
                  rng |-> SeedStream(procs[r].rng, seed),
                  agent_draws |-> 0, hist |-> <<>>, agent |-> NewAgent,
                  state |-> <<0>>, action |-> 0,
                  sim |-> SimulatorFactoryCreate("simple", seed,
                             [spawn_rates |-> NoOverride,
                              pedestrian_spawn_rates |-> NoOverride]).sim ]]
    /\ UNCHANGED <<rng, runs, simVars, encVars, envVars, unitVars>>

\* action = agent.select_action(state, training) in process r
RunSelect(r) ==
    /\ procs[r].made
    /\ procs[r].pc = "select"
    /\ procs[r].sim.current_timestep < MaxTicks
    /\ \E s \in {StreamSelectAction(procs[r].agent, procs[r].state,
                                    procs[r].training, procs[r].rng)} :
          procs' = [procs EXCEPT ![r].rng = s.rng,
                                 ![r].action = s.action,
                                 ![r].agent_draws = @ + s.draws,
                                 ![r].pc = "step"]
    /\ UNCHANGED <<rng, runs, simVars, encVars, envVars, unitVars>>

\* The simulator of process r is given a signal state and ticks.
RunStep(r) ==
    /\ procs[r].made
    /\ procs[r].pc = "step"
    /\ \E signal_state \in RunSignals :
       \E taken \in {StreamDraws(procs[r].sim, procs[r].rng)} :
       \E tick \in {GenerateTimestep(procs[r].sim, signal_state, 1, taken.draws)} :
          procs' = [procs EXCEPT
                      ![r].rng = taken.rng,
                      ![r].sim = tick.sim,
                      ![r].hist = Append(@, [signal_state |-> signal_state,
                                             dt |-> 1,
                                             agent_draws |-> procs[r].agent_draws,
                                             outcome |-> Outcome(tick.sim)]),
                      ![r].pc = IF procs[r].training THEN "train" ELSE "select"]
    /\ UNCHANGED <<rng, runs, simVars, encVars, envVars, unitVars>>

\* agent.store_experience(...) and agent.train(batch_size) in process r
RunTrain(r) ==
    /\ procs[r].made
    /\ procs[r].pc = "train"
    /\ \E t \in {StreamTrain(
                    StoreExperience(procs[r].agent,
                        [ state |-> procs[r].state, action |-> procs[r].action,
                          reward |-> -10, next_state |-> procs[r].state,
                          done |-> FALSE ]),
                    procs[r].batch_size, procs[r].rng)} :
          procs' = [procs EXCEPT ![r].rng = t.rng,
                                 ![r].agent = t.agent,
                                 ![r].agent_draws = @ + t.draws,
                                 ![r].pc = "select"]
    /\ UNCHANGED <<rng, runs, simVars, encVars, envVars, unitVars>>

NextRun == \E r \in RunNames : StartRun(r) \/ RunSelect(r) \/ RunStep(r) \/ RunTrain(r)

SpecRun == InitRun /\ [][NextRun]_vars

----------------------------------------------------------------------------
(* Trainer.train *)

MaxEpisodes == 2        \* episodes of a Trainer

TrainerBatchSizes == {1, DEFAULT_BATCH_SIZE}

\* Trainer(env, agent, episodes, batch_size) over a new environment with
\* max_steps_per_episode from 1 to MaxSteps, its simulator and a new agent;
\* train() is about to start its first episode.
InitTrainer ==
    /\ SimulatorIdle
    /\ EncoderIdle
    /\ \E max_steps \in 1..MaxSteps : env = NewEnv(max_steps)
    /\ controller = NewController
    /\ envRet = [ op |-> "init", action |-> IntAction(0), seed |-> <<>>,
                  raised |-> "none", ret |-> NoReturn, k |-> 0, valid_only |-> TRUE,
                  after_reset |-> FALSE, changed |-> FALSE ]
    /\ \E episodes \in 1..MaxEpisodes, batch_size \in TrainerBatchSizes :
          trainer = [NoTrainer EXCEPT !.episodes = episodes,
                                      !.batch_size = batch_size,
                                      !.pc = "reset"]
    /\ SeedIdle
    /\ UnitsIdle

\* Where train() goes after the body of the while loop: the next step, the
\* next episode, or the end.
AfterBody(t) ==
    IF ~(t.done \/ t.truncated) THEN [t EXCEPT !.pc = "select"]
    ELSE [t EXCEPT !.episode = @ + 1,
                   !.pc = IF t.episode + 1 < t.episodes THEN "reset" ELSE "done"]

\* Line 29: state, _ = self.env.reset()
TrainerReset ==
    /\ trainer.pc = "reset"
    /\ \E r \in {EnvReset(env, controller, sim, <<>>)} :
          /\ env' = r.env
          /\ controller' = r.controller
          /\ sim' = r.sim
          /\ trainer' = IF r.raised # "none"
                        THEN [trainer EXCEPT !.pc = "raised", !.raised = r.raised]
                        ELSE [trainer EXCEPT !.pc = "select", !.state = r.ret.obs,
                                             !.done = FALSE, !.truncated = FALSE]
    /\ UNCHANGED <<envRet, lastDf, lastOp, encVars, seedVars, unitVars>>

\* Line 37: action = self.agent.select_action(state, training=True)
TrainerSelect ==
    /\ trainer.pc = "select"
    /\ \E u \in SelectDraws, randint \in RandintDraws :
          trainer' = [trainer EXCEPT
                         !.pc = "step",
                         !.action = SelectAction(agent, trainer.state, TRUE, u,
                                                 randint).action]
    /\ UNCHANGED <<env, controller, envRet, simVars, encVars, seedVars, unitVars>>

\* Lines 38 to 40: next_state, reward, done, truncated, info = self.env.step(action)
TrainerStep ==
    /\ trainer.pc = "step"
    /\ \E draws \in BoundedDraws(EnvironmentDraws, sim, MaxSpawned - sim.spawned_count) :
       \E r \in {Step(env, controller, sim, IntAction(trainer.action), draws)} :
          /\ env' = r.env
          /\ controller' = r.controller
          /\ sim' = r.sim
          /\ trainer' = IF r.raised # "none"
                        THEN [trainer EXCEPT !.pc = "raised", !.raised = r.raised]
                        ELSE [trainer EXCEPT !.pc = "store",
                                             !.next_state = r.ret.obs,
                                             !.reward = r.ret.reward,
                                             !.done = r.ret.done,
                                             !.truncated = r.ret.truncated,
                                             !.steps = @ + 1]
    /\ UNCHANGED <<envRet, lastDf, lastOp, encVars, seedVars, unitVars>>

\* Line 43: self.agent.store_experience(state, action, reward, next_state, done)
TrainerStore ==
    /\ trainer.pc = "store"
    /\ agent' = StoreExperience(agent,
                    [ state |-> trainer.state, action |-> trainer.action,
                      reward |-> trainer.reward, next_state |-> trainer.next_state,
                      done |-> trainer.done ])
    /\ trainer' = [trainer EXCEPT
                      !.pc = "train",
                      !.stored = Append(@, [episode |-> trainer.episode + 1,
                                            done |-> trainer.done])]
    /\ UNCHANGED <<env, controller, envRet, agentRet, ckpt, restored, simVars, encVars,
                   seedVars, bufVars, queueVars, ctlVars, calcVars>>

\* Lines 46 to 48: loss = self.agent.train(self.batch_size); state = next_state;
\* then the test of the while loop, and lines 50 and 28 when the episode is over.
TrainerTrain ==
    /\ trainer.pc = "train"
    /\ \E indices \in ChoiceWithoutReplacement(
                          ReplayLen(agent.replay_buffer),
                          IF ReplayLen(agent.replay_buffer) < trainer.batch_size
                          THEN 0 ELSE trainer.batch_size) :
       \E r \in {Train(agent, trainer.batch_size, indices, 0)} :
          /\ agent' = r.agent
          /\ trainer' = IF r.raised # "none"
                        THEN [trainer EXCEPT !.pc = "raised", !.raised = r.raised]
                        ELSE AfterBody([trainer EXCEPT !.state = trainer.next_state])
    /\ UNCHANGED <<env, controller, envRet, agentRet, ckpt, restored, simVars, encVars,
                   seedVars, bufVars, queueVars, ctlVars, calcVars>>

NextTrainer ==
    TrainerReset \/ TrainerSelect \/ TrainerStep \/ TrainerStore \/ TrainerTrain

SpecTrainer == InitTrainer /\ [][NextTrainer]_vars

----------------------------------------------------------------------------
(* The simulator under a signal that stays green for N *)

\* The random stream: vehicles spawn on N only, 50 m or 150 m away, at
\* 6 m/s or 14 m/s.
GreenDraws ==
    [ vehicle_trial |-> [a \in DirSet |-> IF a = "N" THEN {5, 950} ELSE {950}],
      pedestrian_trial |-> [a \in DirSet |-> {950}],
      emergency_trial |-> {950},
      movement |-> {100},
      emergency_approach |-> {"S"},
      vehicle_distance |-> {500, 1500},
      vehicle_speed |-> {60, 140},
      pedestrian_distance |-> {200},
      emergency_distance |-> {1000} ]

GreenSignals ==
    { [a \in DirSet |-> IF a = "N" THEN GREEN ELSE RED],
      [a \in DirSet |-> IF a \in {"N", "S"} THEN GREEN ELSE ORANGE] }

InitGreen ==
    /\ SimulatorIdle
    /\ EncoderIdle
    /\ EnvIdle
    /\ SeedIdle
    /\ UnitsIdle

\* sim.generate_timestep(signal_state, dt) with N green; the spawn trials
\* succeed only in the first MaxTicks ticks.
GreenTick ==
    /\ sim.current_timestep < MaxGreenTicks
    /\ \E draws \in BoundedDraws(GreenDraws, sim,
                                 IF sim.current_timestep < MaxTicks
                                 THEN MaxSpawned - sim.spawned_count ELSE 0) :
       \E signal_state \in GreenSignals, dt \in DtValues :
       \E r \in {GenerateTimestep(sim, signal_state, dt, draws)} :
          /\ sim' = r.sim
          /\ lastDf' = r.df
          /\ lastOp' = Call("tick", signal_state, dt, sim)
    /\ UNCHANGED <<encVars, envVars, seedVars, unitVars>>

\* The caller's loop calls generate_timestep again and again: weak fairness
\* of GreenTick, WF_vars(GreenTick), with ENABLED <<GreenTick>>_vars written
\* out as the guard of GreenTick (every tick changes current_timestep).
GreenTickFairness ==
    \/ []<>(sim.current_timestep >= MaxGreenTicks)
    \/ []<><<GreenTick>>_vars

SpecGreen == InitGreen /\ [][GreenTick]_vars /\ GreenTickFairness

----------------------------------------------------------------------------
(* Properties of the simulator *)

LiveIds(s) == DictKeys(s.vehicles) \cup DictKeys(s.pedestrians)
              \cup DictKeys(s.emergency_vehicles)

IsResetState(s) ==
    /\ s.current_timestep = 0
    /\ s.spawned_count = 0
    /\ s.cleared_count = 0
    /\ Len(s.vehicles) = 0
    /\ Len(s.pedestrians) = 0
    /\ Len(s.emergency_vehicles) = 0

\* C5: reset() after any generate_timestep calls leaves timestep 0, zero
\* spawned and cleared counters and no live vehicle, pedestrian or emergency
\* vehicle; a second reset() in a row changes nothing.
C5_ResetClearsAndIsIdempotent ==
    /\ [](lastOp.op = "reset" => IsResetState(sim))
    /\ [][lastOp.op = "reset" /\ lastOp'.op = "reset" => sim' = sim]_vars

\* Two resets in a row after ticks that left live objects behind.
C5_Witness ==
    /\ lastOp.op = "reset"
    /\ lastOp.run = 2
    /\ lastOp.before.spawned_count > 0
    /\ lastOp.before.current_pedestrians > 0
    /\ lastOp.before.current_vehicles > 0

\* C6: the snapshot of generate_timestep holds one record for every object
\* live after the movement phase, none for any other object, and no
\* object_id twice.
C6_SnapshotIsTheLiveSet ==
    lastOp.op = "tick" =>
        /\ {lastDf.rows[i].object_id : i \in 1..Len(lastDf.rows)} = LiveIds(sim)
        /\ \A i, j \in 1..Len(lastDf.rows) :
              lastDf.rows[i].object_id = lastDf.rows[j].object_id => i = j

\* C8: a vehicle that is committed stays committed for as long as it is
\* tracked.
C8_CommittedIsMonotonic ==
    [][\A i \in 1..Len(sim.vehicles) : \A j \in 1..Len(sim'.vehicles) :
          (sim.vehicles[i].committed /\ sim'.vehicles[j].key = sim.vehicles[i].key)
              => sim'.vehicles[j].committed]_vars

\* A vehicle that was in the committed zone before the last tick and is
\* still tracked after it.
C8_Witness ==
    /\ lastOp.op = "tick"
    /\ \E i \in 1..Len(sim.vehicles) :
          /\ sim.vehicles[i].committed
          /\ sim.vehicles[i].created_at < sim.current_timestep - 1
          /\ sim.vehicles[i].distance_m + sim.vehicles[i].speed_m_s * lastOp.dt < 50

RatesInRange(s) ==
    \A a \in DirSet : /\ 0 <= s.spawn_rates[a] /\ s.spawn_rates[a] <= 1000
                      /\ 0 <= s.pedestrian_spawn_rates[a]
                      /\ s.pedestrian_spawn_rates[a] <= 1000

\* C10: no simulator holding a spawn rate outside [0,1] exists after
\* construction, so none executes generate_timestep.
C10_OutOfRangeRatesAreRejected ==
    lastOp.op = "tick" => RatesInRange(sim)

----------------------------------------------------------------------------
(* Properties of the state encoder *)

InUnitRange(x) == ~IsNaN(x) /\ 0 <= x /\ x <= 1000

\* C7: encode returns a vector of exactly TOTAL_STATE_SIZE entries, each
\* within [0,1], for every snapshot (empty, more than 5 objects, with
\* pedestrian or emergency records), signal state, wait times and
\* time-in-phase.
C7_EncodeIsTotalAndNormalized ==
    encOut.called =>
        /\ encOut.raised = "none"
        /\ Len(encOut.state) = TOTAL_STATE_SIZE
        /\ \A i \in 1..Len(encOut.state) : InUnitRange(encOut.state[i])

----------------------------------------------------------------------------
(* Properties of the environment *)

\* C1: after reset(), in an episode of max_steps_per_episode = N stepped with
\* valid actions only, the k-th call to step (k <= N) returns, with done = True
\* exactly when k = N.
C1_DoneExactlyOnTheNthStep ==
    (envRet.op = "step" /\ envRet.after_reset /\ envRet.valid_only
     /\ envRet.k <= env.max_steps)
    => (envRet.raised = "none" /\ (envRet.ret.done <=> envRet.k = env.max_steps))

AllRed(signal_state) == \A d \in DirSet : signal_state[d] = RED

\* C2: after a step that was given action 0 (N-S green) and returned, the
\* controller's signal state is no longer all red.
C2_StepSetsTheSignalPhase ==
    (envRet.op = "step" /\ envRet.raised = "none" /\ envRet.action = IntAction(0))
    => ~AllRed(controller.signal_state)

\* C3: a step given anything but an integer of [0, 11) raises ValueError, and
\* the call changes neither the environment's counters nor the simulator nor
\* the controller.
C3_InvalidActionIsRejected ==
    (envRet.op = "step" /\ ~ValidGiven(envRet.action))
    => (envRet.raised = "ValueError" /\ ~envRet.changed)

\* C4: the controller of the environment never holds a north/south direction
\* and an east/west direction green at the same time.
C4_NoConflictingGreens ==
    ~\E a \in {"N", "S"}, b \in {"E", "W"} :
        controller.signal_state[a] = GREEN /\ controller.signal_state[b] = GREEN

\* The second step of an episode, given the N-S green action as the first
\* was, has returned.
C4_Witness ==
    /\ envRet.op = "step" /\ envRet.after_reset /\ envRet.valid_only
    /\ envRet.raised = "none" /\ envRet.action = IntAction(0) /\ envRet.k = 2

----------------------------------------------------------------------------
(* Properties of two runs *)

\* The first n ticks of the two runs were given the same signal states and dt.
SameInputs(a, b, n) ==
    \A j \in 1..n : /\ a.hist[j].signal_state = b.hist[j].signal_state
                    /\ a.hist[j].dt = b.hist[j].dt

\* C9: two runs constructed with the same seed, each drawing from the stream
\* its constructor seeded with no other draw in between, have the same
\* spawned_count, cleared_count and live objects after every tick up to which
\* they were given the same signal states and dt.
C9_SameSeedSameRun ==
    LET a == runs["A"]
        b == runs["B"]
    IN (a.made /\ b.made /\ a.seed = b.seed /\ a.clean /\ b.clean)
       => \A i \in 1..Min(Len(a.hist), Len(b.hist)) :
             SameInputs(a, b, i) => a.hist[i].outcome = b.hist[i].outcome

\* Two runs of their own with the same seed and the same inputs have ticked
\* twice each, and objects have spawned.
C9_Witness ==
    LET a == runs["A"]
        b == runs["B"]
    IN /\ a.made /\ b.made /\ a.seed = b.seed /\ a.clean /\ b.clean
       /\ Len(a.hist) = 2 /\ Len(b.hist) = 2
       /\ SameInputs(a, b, 2)
       /\ a.hist[2].outcome.spawned_count > 0

----------------------------------------------------------------------------
(* Properties of the replay buffer *)

\* C11: after N pushes into a buffer of capacity C the buffer holds the last
\* min(N, C) pushed transitions in push order, and a sample call leaves the
\* stored transitions as they were.
C11_BufferKeepsTheLastPushes ==
    LET n == Len(rbLog.pushed)
        kept == Min(n, rb.capacity)
    IN /\ ReplayLen(rb) = kept
       /\ rb.buffer = SubSeq(rbLog.pushed, n - kept + 1, n)
       /\ rbLog.op = "sample" => rb.buffer = rbLog.before

\* More transitions were pushed than a buffer of capacity 2 holds, and a batch
\* of two has been sampled from it.
C11_Witness ==
    /\ rb.capacity = 2 /\ Len(rbLog.pushed) > rb.capacity
    /\ rbLog.pushed[2] # rbLog.pushed[3]
    /\ rbLog.op = "sample" /\ rbLog.raised = "none" /\ Len(rbLog.batch) = 2

----------------------------------------------------------------------------
(* Properties of the agent *)

\* C12: train(batch_size) on a replay buffer of fewer than batch_size
\* transitions returns None and leaves epsilon, the update counter, the online
\* and target parameters and the buffer as they were.
C12_TrainWithoutDataIsANoOp ==
    (agentRet.op = "train" /\ ReplayLen(agentRet.before.replay_buffer) < agentRet.batch_size)
    => /\ agentRet.raised = "none"
       /\ agentRet.ret = NotTrained
       /\ agent.epsilon = agentRet.before.epsilon
       /\ agent.update_counter = agentRet.before.update_counter
       /\ agent.model = agentRet.before.model
       /\ agent.target_model = agentRet.before.target_model
       /\ agent.replay_buffer = agentRet.before.replay_buffer

\* An agent that has trained once on its two transitions is asked to train on
\* a batch of three.
C12_Witness ==
    /\ agentRet.op = "train" /\ agentRet.batch_size = 3
    /\ ReplayLen(agentRet.before.replay_buffer) = 2
    /\ agentRet.before.update_counter = 1

----------------------------------------------------------------------------
(* Properties of the priority queue *)

\* Entry i of `live` (in push order) is more urgent than entry j: a smaller
\* priority, or the same priority and pushed earlier.
MoreUrgent(live, i, j) ==
    \/ live[i].priority < live[j].priority
    \/ live[i].priority = live[j].priority /\ i < j

\* The objects of `live` from the most urgent on.
ByUrgency(live) ==
    [n \in 1..Len(live) |->
        live[CHOOSE i \in 1..Len(live) :
                Cardinality({j \in 1..Len(live) : MoreUrgent(live, j, i)}) = n - 1].obj]

\* The objects held by the queue.
QueuedObjects(q) == {q.queue[i].obj : i \in 1..Len(q.queue)}

\* C13: pop returns the object of the smallest priority among those queued,
\* the earliest pushed among equals, and removes it alone; on an empty queue
\* it returns None and the queue stays empty.
C13_PopReturnsTheMostUrgent ==
    pqLog.op = "pop"
    => IF pqLog.before = <<>>
       THEN pqLog.ret = None /\ QueueSize(pq) = 0
       ELSE /\ pqLog.ret = Some(ByUrgency(pqLog.before)[1])
            /\ QueueSize(pq) = Len(pqLog.before) - 1
            /\ QueuedObjects(pq) = SeqRange(ByUrgency(pqLog.before)) \ {pqLog.ret.obj}

\* A pop has chosen among three queued objects of which the two most urgent
\* have the same priority, after an earlier pop.
C13_Witness ==
    /\ pqLog.op = "pop" /\ Len(pqLog.before) = 3 /\ pqLog.pushes = 4
    /\ \E i, j \in 1..3 :
          /\ i < j /\ pqLog.before[i].priority = pqLog.before[j].priority
          /\ \A n \in 1..3 : pqLog.before[n].priority >= pqLog.before[i].priority
          /\ pqLog.before[i].obj > 1

\* C14: pop_all(k) with an integer k >= 0 removes the min(k, size) most urgent
\* objects, returns them from the most urgent on, and leaves the others
\* queued.
C14_PopAllRemovesTheKMostUrgent ==
    (pqLog.op = "pop_all" /\ pqLog.k # <<>>)
    => LET n == Min(pqLog.k[1], Len(pqLog.before))
       IN /\ pqLog.popped = SubSeq(ByUrgency(pqLog.before), 1, n)
          /\ QueueSize(pq) = Len(pqLog.before) - n
          /\ QueuedObjects(pq)
               = SeqRange(SubSeq(ByUrgency(pqLog.before), n + 1, Len(pqLog.before)))

----------------------------------------------------------------------------
(* Properties of the signal controller *)

\* C15: set_signal accepts each of N, S, E, W with each of green, red, orange
\* and all_red, setting the colour, the duration and time_in_phase = 0; any
\* other direction or state raises ValueError and leaves the controller as it
\* was.
C15_SetSignalValidatesMembership ==
    ctlLog.op = "set_signal"
    => IF ctlLog.direction \in DirSet /\ ctlLog.state \in {GREEN, RED, ORANGE, ALL_RED}
       THEN /\ ctlLog.raised = "none"
            /\ ctl.signal_state[ctlLog.direction] = ctlLog.state
            /\ ctl.phase_duration = ctlLog.amount
            /\ ctl.time_in_phase = 0
       ELSE ctlLog.raised = "ValueError" /\ ctl = ctlLog.before

\* C16: 0 <= time_in_phase <= phase_duration always; time_in_phase is 0 after
\* a set_signal that was accepted and after a reset, and an update never
\* lowers it.
C16_TimeInPhaseWithinDuration ==
    /\ 0 <= ctl.time_in_phase /\ ctl.time_in_phase <= ctl.phase_duration
    /\ (ctlLog.op = "set_signal" /\ ctlLog.raised = "none") => ctl.time_in_phase = 0
    /\ ctlLog.op = "reset" => ctl.time_in_phase = 0
    /\ ctlLog.op = "update" => ctl.time_in_phase >= ctlLog.before.time_in_phase

\* An update by 2 s has taken a phase of 3 s from 2 s to its end.
C16_Witness ==
    /\ ctlLog.op = "update" /\ ctlLog.amount = 2
    /\ ctlLog.before.time_in_phase = 2 /\ ctlLog.before.phase_duration = 3
    /\ ctl.time_in_phase = 3

----------------------------------------------------------------------------
(* Properties of the reward *)

\* The reward of the calculator for the snapshot of the last step, with some
\* count of risky events and of waiting pedestrians no larger than the
\* snapshot, is the reward in hundredths.
CalculatorGives(reward, df) ==
    \E risky_events \in 0..Len(df.rows), pedestrian_waiting \in 0..Len(df.rows) :
       \E terms \in {Calculate(GetQueueSizes(df), [d \in DirSet |-> 0],
                               risky_events, pedestrian_waiting)} :
          reward * terms.total.den = 10 * terms.total.num

\* C17: the reward a step returns is the calculator's formula (throughput,
\* Gini fairness, safety and pedestrian terms plus the step penalty) applied
\* to the queue sizes and counts of that tick's snapshot.
C17_StepRewardIsTheCalculatorFormula ==
    (envRet.op = "step" /\ envRet.raised = "none")
    => CalculatorGives(envRet.ret.reward, env.last_sensor_df)

\* C18: the penalty of one risky event, safety_weight, is larger than the
\* throughput, fairness and pedestrian penalties of the tick together, for
\* every queue-size vector and pedestrian count of an episode.
C18_SafetyDominatesTheOtherTerms ==
    calcOut.op = "calculate"
    => SAFETY_WEIGHT * calcOut.terms.fairness.den
         > calcOut.terms.fairness.den
              * (-calcOut.terms.throughput - calcOut.terms.pedestrian)
           - calcOut.terms.fairness.num

AllEqual(values) == \A i, j \in 1..Len(values) : values[i] = values[j]
SingleNonZero(values) == Cardinality({i \in 1..Len(values) : values[i] # 0}) = 1

\* C19: over four queue lengths the Gini coefficient is 0 when all are equal,
\* 0.75 when exactly one is not zero, and always within [0, 0.75].
C19_GiniOfFourQueues ==
    calcOut.op = "gini"
    => /\ AllEqual(QueueValues(calcIn.queue_sizes)) => calcOut.gini.num = 0
       /\ SingleNonZero(QueueValues(calcIn.queue_sizes))
             => 4 * calcOut.gini.num = 3 * calcOut.gini.den
       /\ calcOut.gini.num >= 0 /\ calcOut.gini.den > 0
       /\ 4 * calcOut.gini.num <= 3 * calcOut.gini.den

\* The coefficient of [10, 0, 0, 0] has been computed and is 0.75.
C19_Witness ==
    /\ calcOut.op = "gini"
    /\ QueueValues(calcIn.queue_sizes) = <<10, 0, 0, 0>>
    /\ 4 * calcOut.gini.num = 3 * calcOut.gini.den

----------------------------------------------------------------------------
(* Properties of the environment's reset *)

\* C20: after reset, from whatever state it was called in, the step count and
\* the cumulative reward are 0, the simulator is empty with timestep and
\* counters 0, and the controller is all red with time_in_phase and duration 0.
C20_ResetReinitializesEverything ==
    envRet.op = "reset"
    => /\ env.step_count = 0
       /\ env.total_reward = 0
       /\ env.episode_step_rewards = <<>>
       /\ IsResetState(sim)
       /\ AllRed(controller.signal_state)
       /\ controller.time_in_phase = 0
       /\ controller.phase_duration = 0

\* A reset without a seed has been called in a state that steps had changed,
\* and cleared it.
C20_Witness ==
    /\ envRet.op = "reset" /\ envRet.seed = <<>> /\ envRet.changed
    /\ env.step_count = 0 /\ env.total_reward = 0 /\ IsResetState(sim)

----------------------------------------------------------------------------
(* Properties of the agent's schedule *)

\* The last call was a train that completed an update.
Updated == agentRet.op = "train" /\ agentRet.ret.kind = "float"

\* C23: a train call that completes an update overwrites the target network
\* with the online network exactly when the count of completed updates
\* becomes a multiple of 100; every other train call, select_action and
\* store_experience leave the target network and the count as they were.
C23_TargetSyncEvery100Updates ==
    /\ Updated
       => /\ agent.update_counter = agentRet.before.update_counter + 1
          /\ agent.update_counter % 100 = 0 => agent.target_model = agent.model
          /\ agent.update_counter % 100 # 0
                => agent.target_model = agentRet.before.target_model
    /\ (agentRet.op \in {"train", "select_action", "store_experience"} /\ ~Updated)
       => /\ agent.target_model = agentRet.before.target_model
          /\ agent.update_counter = agentRet.before.update_counter

\* The 100th update has replaced a target network that was behind the online
\* one.
C23_Witness ==
    /\ Updated /\ agent.update_counter = 100
    /\ agentRet.before.target_model # agentRet.before.model
    /\ agent.target_model = agent.model

----------------------------------------------------------------------------
(* Properties of the checkpoint *)

\* C21: an agent loaded from a checkpoint has the online parameters, the
\* target parameters, the optimizer state, the epsilon and the count of
\* training updates of the agent that saved it.
C21_LoadRestoresTheSavedAgent ==
    restored.loaded
    => /\ restored.agent.model = restored.saver.model
       /\ restored.agent.target_model = restored.saver.target_model
       /\ restored.agent.optimizer = restored.saver.optimizer
       /\ restored.agent.epsilon = restored.saver.epsilon
       /\ restored.agent.update_counter = restored.saver.update_counter

----------------------------------------------------------------------------
(* Properties of the movement phase *)

\* The pedestrians and emergency vehicles tracked by s.
Walkers(s) == SeqRange(s.pedestrians) \cup SeqRange(s.emergency_vehicles)

\* Object p of before the tick has been advanced by speed * dt, and removed
\* and counted if that brought it to the stop line.
Advanced(p, after, dt) ==
    IF p.distance_m - p.speed_m_s * dt <= 0
    THEN \A q \in Walkers(after) : q.key # p.key
    ELSE \E q \in Walkers(after) :
            q.key = p.key /\ q.distance_m = p.distance_m - p.speed_m_s * dt

\* C22: the movement phase of every generate_timestep advances every live
\* pedestrian and emergency vehicle by speed * dt, as it does vehicles, and
\* removes it once its distance is 0 or below.
C22_EveryObjectIsAdvanced ==
    [][lastOp'.op = "tick" => \A p \in Walkers(sim) : Advanced(p, sim', lastOp'.dt)]_vars

\* C25: after every generate_timestep the speed of every live vehicle is
\* within [0, 12] m/s.
C25_VehicleSpeedWithinBounds ==
    lastOp.op = "tick"
    => \A i \in 1..Len(sim.vehicles) :
          0 <= sim.vehicles[i].speed_m_s /\ sim.vehicles[i].speed_m_s <= 120

\* C26: a tick under which the approach of a tracked vehicle shows orange or
\* red does not raise the vehicle's speed.
C26_OnlyGreenRaisesSpeed ==
    [][lastOp'.op = "tick"
       => \A i \in 1..Len(sim.vehicles) : \A j \in 1..Len(sim'.vehicles) :
             ( /\ sim'.vehicles[j].key = sim.vehicles[i].key
               /\ SignalOf(lastOp'.signal_state, sim.vehicles[i].approach)
                     \in {ORANGE, RED} )
             => sim'.vehicles[j].speed_m_s <= sim.vehicles[i].speed_m_s]_vars

\* C27: after every generate_timestep and every reset the objects spawned
\* are the objects cleared and the objects live.
C27_SpawnedIsClearedPlusLive ==
    lastOp.op \in {"tick", "reset"}
    => /\ sim.spawned_count
            = sim.cleared_count + Len(sim.vehicles) + Len(sim.pedestrians)
              + Len(sim.emergency_vehicles)
       /\ GetStats(sim).spawned_count
            = GetStats(sim).cleared_count + GetStats(sim).total_current_objects
       /\ Cardinality(LiveIds(sim)) = GetStats(sim).total_current_objects

\* A tick has cleared a vehicle while another object stays live.
C27_Witness ==
    /\ lastOp.op = "tick"
    /\ sim.cleared_count > lastOp.before.cleared_count
    /\ Len(sim.vehicles) + Len(sim.pedestrians) + Len(sim.emergency_vehicles) > 0

----------------------------------------------------------------------------
(* Properties of a vehicle's life under green *)

\* The vehicle spawned on N in tick t is tracked.
TrackedFrom(t) ==
    \E i \in 1..Len(sim.vehicles) :
       sim.vehicles[i].approach = "N" /\ sim.vehicles[i].created_at = t

----------------------------------------------------------------------------
(* Properties of the runs over one stream each *)

\* C29: two runs started with the same seed show the same counters and live
\* objects after every tick up to which their simulators were given the same
\* signal states, however many values their agents read from the stream.
C29_SpawnsIndependentOfAgentDraws ==
    LET a == procs["A"]
        b == procs["B"]
    IN (a.made /\ b.made /\ a.seed = b.seed)
       => \A i \in 1..Min(Len(a.hist), Len(b.hist)) :
             SameInputs(a, b, i) => a.hist[i].outcome = b.hist[i].outcome

----------------------------------------------------------------------------
(* Properties of Trainer.train *)

\* The transitions stored so far, in an environment of max_steps N, are those
\* of the steps taken, and done is set on the last of each episode only.
StoredOncePerStep(t, N) ==
    /\ Len(t.stored) = IF t.pc = "store" THEN t.steps - 1 ELSE t.steps
    /\ \A i \in 1..Len(t.stored) :
          /\ t.stored[i].done <=> (i % N = 0)
          /\ t.stored[i].episode = (i - 1) \div N + 1

\* C30: train() raises nothing; it ends after episodes * max_steps steps of
\* the environment, every step stored once after it was taken, and in every
\* episode the last stored transition, and no other, has done = True.
C30_TrainTakesEveryStepOfEveryEpisode ==
    /\ trainer.pc # "raised"
    /\ trainer.pc # "idle" => StoredOncePerStep(trainer, env.max_steps)
    /\ trainer.pc = "done" => trainer.steps = trainer.episodes * env.max_steps

============================================================================
